---- MODULE Spec2Model ----
(***************************************************************************)
(* Rate limiter (src/src/rateLimiter.ts) and load balancer                 *)
(* (src/src/loadBalancer.ts) of the RDP signaling server, as state         *)
(* machines.  Times are milliseconds, as Date.now() gives them.            *)
(***************************************************************************)
EXTENDS Integers, Sequences, FiniteSets, TLC

VARIABLES
    now,          \* Date.now()
    ticks,        \* number of clock advances so far (bounds the run)
    config,       \* RateLimiter.config
    clients,      \* RateLimiter.clients: clientId -> ClientData
    ret,          \* what the last operation returned
    lastDenial,   \* history: per client, the last denial checkLimit returned
    run,          \* history: per client, the counted checks since the record was created
    bans,         \* history: per client identity, the bans blacklistClient set since the
                  \* last whitelistClient
    cleared,      \* history: per client, whether whitelistClient cleared its record and no
                  \* counted check or ban followed
    checked,      \* history: per client, the time of its latest checkLimit call, if any
    admitted,     \* history: per client, the times of its counted checks answered allowed
                  \* = true within the last window, since whitelistClient was last called
    pen,          \* inputs and results of the penalty computation
    nodes,        \* LoadBalancer.nodes: the registry, in insertion order
    orphans,      \* node objects no longer in the registry that a probe still holds
    probes,       \* health probes in flight (the node object of each), oldest first
    strategy,     \* LoadBalancer.strategy, with the strategy object's own fields
    healthCheckInterval, \* whether the health-check timer is set
    unprobed,     \* history: ids whose registered node no probe has found ok since addServer,
                  \* kept by the specification of sticky sessions only
    callers,      \* per caller of the balancer, where it is between selectServer,
                  \* incrementConnection and decrementConnection, and on which node
    newest,       \* history: per node id, what the probe started last on the registered
                  \* node found, once that probe has ended
    circuitBreakers,     \* LoadBalancer.circuitBreakers: serverId -> breaker
    emitted,      \* the observed events the last operation emitted, in order
    streak,       \* history: per breaker, recordFailure calls since it last was fresh
    served,       \* history: the ids a run of selectServer calls on a static registry returned
    stickySessionMap,    \* LoadBalancer.stickySessionMap: sessionId -> serverId
    eventLimiters, \* SocketRateLimiter.eventLimiters: event -> the clients of its RateLimiter
    healthTimers, \* the interval timers of the balancer that are set and not cleared
    cleanupTimer, \* whether the cleanup timer of the limiter is set and not cleared
    silent        \* the ids of the backends that never answer a request

clockVars == <<now, ticks>>
rlVars == <<config, clients, lastDenial, run, bans, cleared, admitted, checked>>
lbVars == <<nodes, orphans, probes, strategy, healthCheckInterval, unprobed, newest, callers>>
cbVars == <<circuitBreakers, streak>>
stickyVars == <<stickySessionMap>>
socketVars == <<eventLimiters>>
timerVars == <<healthTimers, cleanupTimer>>
netVars == <<silent>>
vars == <<clockVars, rlVars, pen, lbVars, cbVars, ret, emitted, served, stickyVars, socketVars, timerVars, netVars>>

---------------------------------------------------------------------------
(* Bounds of the model *)

Epoch == 1000000          \* Date.now() of the first state
MaxTicks == 2             \* clock advances per run
MaxMax == 2               \* largest config.max
MaxTotal == 4             \* cap of a client's totalRequests
MaxWarnings == 12         \* largest warnings given to getBlockDuration alone
MaxChecks == 2            \* cap of a client's totalRequests in each limiter of a SocketRateLimiter
MaxSocketTicks == 1       \* clock advances per run of a SocketRateLimiter

ClientIds == {"c1"}
Steps == {1, 59999, 60000}             \* clock advances, ms
BlacklistDurations == {60000, 86400000} \* blacklistClient(duration); the second is the default

---------------------------------------------------------------------------
(* Helpers for JavaScript values *)

\* An optional number (blockedUntil?: number) is {} or {v}.
Undefined == {}
Some(v) == {v}
Val(opt) == CHOOSE v \in opt : TRUE
\* `x && ...` on an optional number: undefined and 0 are falsy.
Truthy(opt) == \E v \in opt : v /= 0

\* Math.ceil(x / 1000) for an integer x
CeilDiv1000(x) == IF x >= 0 THEN (x + 999) \div 1000 ELSE -((-x) \div 1000)

Pow2(n) == IF n = 0 THEN 1 ELSE IF n = 1 THEN 2 ELSE IF n = 2 THEN 4
           ELSE IF n = 3 THEN 8 ELSE IF n = 4 THEN 16 ELSE 32

MinOf(a, b) == IF a < b THEN a ELSE b
MaxOf(a, b) == IF a > b THEN a ELSE b

\* Array.prototype.filter is SelectSeq of Sequences.

\* Map.set / Map.delete on a map kept as a function
Put(m, k, v) == [x \in (DOMAIN m) \cup {k} |-> IF x = k THEN v ELSE m[x]]
Del(m, k) == [x \in (DOMAIN m) \ {k} |-> m[x]]

---------------------------------------------------------------------------
(* RateLimiter *)

DefaultWindowMs == 60000
BaseBlock == 60000
BurstWindowMs == 10000

\* constructor(config)
Configs ==
    [windowMs : {DefaultWindowMs}, max : 1..MaxMax,
     skipSuccessfulRequests : BOOLEAN, skipFailedRequests : BOOLEAN]

\* the record checkLimit and blacklistClient create for an unknown client
NewClient ==
    [requests |-> <<>>, blocked |-> FALSE, blockedUntil |-> Undefined,
     warnings |-> 0, totalRequests |-> 0, suspiciousActivity |-> FALSE]

\* getBlockDuration with the cap of the multiplier written as a wrap-around
getBlockDurationWrap(client) ==
    LET multiplier == client.warnings % 10
    IN  IF client.suspiciousActivity
        THEN BaseBlock * multiplier * 2
        ELSE BaseBlock * Pow2(MinOf(multiplier, 5))

\* getBlockDuration(client)
getBlockDuration(client) ==
    LET multiplier == MinOf(client.warnings, 10)
    IN  IF client.suspiciousActivity
        THEN BaseBlock * multiplier * 2
        ELSE BaseBlock * Pow2(MinOf(multiplier, 5))

\* detectSuspiciousActivity without its test of the whole window
detectBurstOnly(cfg, client, t) ==
    LET recent(time) == time > t - BurstWindowMs
        recentRequests == SelectSeq(client.requests, recent)
        burst == 10 * Len(recentRequests) > 8 * cfg.max
    IN  IF burst THEN [client EXCEPT !.suspiciousActivity = TRUE] ELSE client

\* detectSuspiciousActivity(client, now): the client with the flag updated.
\* length > max * 0.8 and length > max * 0.9, in tenths
detectSuspiciousActivity(cfg, client, t) ==
    LET recent(time) == time > t - BurstWindowMs
        recentRequests == SelectSeq(client.requests, recent)
        burst == 10 * Len(recentRequests) > 8 * cfg.max
        high == 10 * Len(client.requests) > 9 * cfg.max
    IN  IF burst \/ high THEN [client EXCEPT !.suspiciousActivity = TRUE] ELSE client

\* `client.blocked && client.blockedUntil && now < client.blockedUntil`
StillBlocked(client, t) ==
    client.blocked /\ Truthy(client.blockedUntil) /\ t < Val(client.blockedUntil)

\* `client.blocked && client.blockedUntil && now >= client.blockedUntil`
BlockExpired(client, t) ==
    client.blocked /\ Truthy(client.blockedUntil) /\ t >= Val(client.blockedUntil)

\* the skip test of checkLimit
Skipped(cfg, isSuccess) ==
    \/ isSuccess /\ cfg.skipSuccessfulRequests
    \/ ~isSuccess /\ cfg.skipFailedRequests

\* a skipped call that is added to totalRequests all the same
AllowUncountedButTotalled(cfg, cl, clientId, client) ==
    [clients |-> Put(cl, clientId, [client EXCEPT !.totalRequests = @ + 1]),
     result |-> [allowed |-> TRUE, remaining |-> cfg.max,
                 retryAfter |-> Undefined, counted |-> FALSE]]

\* the return of checkLimit for an outcome class that is skipped
AllowUncounted(cfg, cl, clientId, client) ==
    [clients |-> Put(cl, clientId, client),
     result |-> [allowed |-> TRUE, remaining |-> cfg.max,
                 retryAfter |-> Undefined, counted |-> FALSE]]

\* checkLimit(clientId, isSuccess) at time t on the map cl:
\* the new map and the result returned.
checkLimit(cfg, cl, clientId, isSuccess, t) ==
    LET c0 == IF clientId \in DOMAIN cl THEN cl[clientId] ELSE NewClient
    IN  IF StillBlocked(c0, t)
        THEN [clients |-> Put(cl, clientId, c0),
              result |-> [allowed |-> FALSE, remaining |-> 0,
                          retryAfter |-> Some(CeilDiv1000(Val(c0.blockedUntil) - t)),
                          counted |-> FALSE]]
        ELSE
        LET c1 == IF BlockExpired(c0, t)
                  THEN [c0 EXCEPT !.blocked = FALSE, !.blockedUntil = Undefined,
                                  !.requests = <<>>]
                  ELSE c0
        IN  IF Skipped(cfg, isSuccess)
            THEN AllowUncounted(cfg, cl, clientId, c1)
            ELSE
            LET windowStart == t - cfg.windowMs
                inWindow(time) == time > windowStart
                c2 == [c1 EXCEPT !.requests = SelectSeq(c1.requests, inWindow),
                                 !.totalRequests = @ + 1]
                c3 == detectSuspiciousActivity(cfg, c2, t)
            IN  IF Len(c3.requests) >= cfg.max
                THEN LET c4 == [c3 EXCEPT !.blocked = TRUE,
                                          !.blockedUntil = Some(t + getBlockDuration(c3)),
                                          !.warnings = @ + 1]
                     IN  [clients |-> Put(cl, clientId, c4),
                          result |-> [allowed |-> FALSE, remaining |-> 0,
                                      retryAfter |-> Some(CeilDiv1000(getBlockDuration(c4))),
                                      counted |-> TRUE]]
                ELSE LET c5 == [c3 EXCEPT !.requests = Append(@, t)]
                     IN  [clients |-> Put(cl, clientId, c5),
                          result |-> [allowed |-> TRUE,
                                      remaining |-> cfg.max - Len(c5.requests),
                                      retryAfter |-> Undefined, counted |-> TRUE]]

\* blacklistClient that records the end of the ban without setting the blocked flag
blacklistClientUnflagged(cl, clientId, duration, t) ==
    LET c0 == IF clientId \in DOMAIN cl THEN cl[clientId] ELSE NewClient
    IN  Put(cl, clientId, [c0 EXCEPT !.blockedUntil = Some(t + duration),
                                     !.suspiciousActivity = TRUE])

\* blacklistClient(clientId, duration) at time t
blacklistClient(cl, clientId, duration, t) ==
    LET c0 == IF clientId \in DOMAIN cl THEN cl[clientId] ELSE NewClient
    IN  Put(cl, clientId, [c0 EXCEPT !.blocked = TRUE,
                                     !.blockedUntil = Some(t + duration),
                                     !.suspiciousActivity = TRUE])

\* whitelistClient that leaves the request history in place
whitelistClientKeepRequests(cl, clientId) ==
    IF clientId \in DOMAIN cl
    THEN [cl EXCEPT ![clientId] =
             [@ EXCEPT !.blocked = FALSE, !.blockedUntil = Undefined,
                       !.warnings = 0, !.suspiciousActivity = FALSE]]
    ELSE cl

\* whitelistClient(clientId)
whitelistClient(cl, clientId) ==
    IF clientId \in DOMAIN cl
    THEN [cl EXCEPT ![clientId] =
             [@ EXCEPT !.blocked = FALSE, !.blockedUntil = Undefined,
                       !.requests = <<>>, !.warnings = 0,
                       !.suspiciousActivity = FALSE]]
    ELSE cl

\* Math.max(...client.requests, 0)
RECURSIVE MaxRequest(_)
MaxRequest(s) == IF s = <<>> THEN 0 ELSE MaxOf(Head(s), MaxRequest(Tail(s)))

\* cleanup that takes the flag off the clients it unblocks
cleanupUnflagging(cfg, cl, t) ==
    LET cleanupThreshold == t - cfg.windowMs * 3
        evicted(c) == ~cl[c].blocked /\ MaxRequest(cl[c].requests) < cleanupThreshold
        kept == {c \in DOMAIN cl : ~evicted(c)}
    IN  [c \in kept |->
            IF cl[c].blocked /\ Truthy(cl[c].blockedUntil) /\ Val(cl[c].blockedUntil) < t
            THEN [cl[c] EXCEPT !.blocked = FALSE, !.blockedUntil = Undefined,
                               !.requests = <<>>, !.suspiciousActivity = FALSE]
            ELSE cl[c]]

\* cleanup() at time t; each client is handled on its own, so the order of
\* the iteration does not matter
cleanup(cfg, cl, t) ==
    LET cleanupThreshold == t - cfg.windowMs * 3
        evicted(c) == ~cl[c].blocked /\ MaxRequest(cl[c].requests) < cleanupThreshold
        kept == {c \in DOMAIN cl : ~evicted(c)}
    IN  [c \in kept |->
            IF cl[c].blocked /\ Truthy(cl[c].blockedUntil) /\ Val(cl[c].blockedUntil) < t
            THEN [cl[c] EXCEPT !.blocked = FALSE, !.blockedUntil = Undefined,
                               !.requests = <<>>]
            ELSE cl[c]]

---------------------------------------------------------------------------
(* LoadBalancer: the registry and the selection strategies.  A ServerNode  *)
(* is kept without host, port and lastHealthCheck, which no operation      *)
(* modelled here reads.                                                     *)

MaxCallers == 2            \* callers of the balancer at work at once
MaxInFlight == 3           \* probes in flight at once, where probes race
MaxProbes == 1            \* health probes in flight at once
MaxActive == 2            \* cap of activeConnections
MaxFailures == 6          \* cap of a breaker's failures
MaxSetup == 1             \* cap of failures and of checks where they only set the scene
MaxWeight == 2            \* largest weight of a node of a static registry
MaxCalls == 12            \* selectServer calls in a run on a static registry

NodeIds == {"A", "B"}

\* the configurations given to addServer
ServerConfigs ==
    { [id |-> "A", maxConnections |-> 2, weight |-> 2,
       cpuUsage |-> 10, memoryUsage |-> 10, responseTime |-> 0],
      [id |-> "B", maxConnections |-> 1, weight |-> 1,
       cpuUsage |-> 20, memoryUsage |-> 20, responseTime |-> 0] }

\* the partial statistics given to updateServerStats
StatsUpdates ==
    { [activeConnections |-> 0], [cpuUsage |-> 0, memoryUsage |-> 0] }

StrategyNames ==
    {"round-robin", "least-connections", "weighted-round-robin", "performance-based"}

\* the events a listener is registered for; emit() of any other event reaches nobody
Observed ==
    {"server-selected", "no-server-available", "server-healthy", "server-unhealthy",
     "health-check-completed", "health-check-failed",
     "circuit-breaker-opened", "circuit-breaker-closed"}

Event(name, id) == [name |-> name, id |-> id]
IsObserved(e) == e.name \in Observed
\* this.emit(...) for each event of es, in order
Emit(es) == SelectSeq(es, IsObserved)

\* an optional node (ServerNode | null) is {} or {node}
Null == {}

\* the filter of the strategies without its capacity test
SelectableAnyLoad(node) == node.isHealthy

\* `node.isHealthy && node.activeConnections < node.maxConnections`
Selectable(node) == node.isHealthy /\ node.activeConnections < node.maxConnections

\* positions of the registry
Positions(ns) == 1..Len(ns)
HasId(ns, id) == \E i \in Positions(ns) : ns[i].id = id
IndexOfId(ns, id) == CHOOSE i \in Positions(ns) : ns[i].id = id
\* the node of that id among the nodes ns
NodeOf(ns, id) == ns[IndexOfId(ns, id)]

\* Map.set(node.id, node): a known key keeps its place
MapSet(ns, node) ==
    IF HasId(ns, node.id)
    THEN [ns EXCEPT ![IndexOfId(ns, node.id)] = node]
    ELSE Append(ns, node)

\* Map.delete(id) that leaves the entry in place
MapDeleteNothing(ns, id) == ns

\* Map.delete(id)
MapDelete(ns, id) ==
    LET other(n) == n.id /= id IN SelectSeq(ns, other)

\* a new strategy object
NewStrategy(name) == [name |-> name, currentIndex |-> 0, weightedQueue |-> <<>>]

\* the round robin advancing modulo the length of the registry
RoundRobinOverRegistry(st, ns) ==
    LET healthyNodes == SelectSeq(ns, Selectable)
    IN  IF Len(healthyNodes) = 0
        THEN [strategy |-> st, selected |-> Null]
        ELSE [strategy |-> [st EXCEPT !.currentIndex = (@ + 1) % Len(ns)],
              selected |-> {healthyNodes[(st.currentIndex % Len(healthyNodes)) + 1]}]

\* RoundRobinStrategy.selectServer
RoundRobinSelect(st, ns) ==
    LET healthyNodes == SelectSeq(ns, Selectable)
    IN  IF Len(healthyNodes) = 0
        THEN [strategy |-> st, selected |-> Null]
        ELSE [strategy |-> [st EXCEPT !.currentIndex = (@ + 1) % Len(healthyNodes)],
              selected |-> {healthyNodes[(st.currentIndex % Len(healthyNodes)) + 1]}]

\* the reduce taking a later node of equal activeConnections
RECURSIVE ReduceMinConnectionsLast(_, _)
ReduceMinConnectionsLast(min, rest) ==
    IF rest = <<>> THEN min
    ELSE ReduceMinConnectionsLast(
             IF Head(rest).activeConnections <= min.activeConnections THEN Head(rest) ELSE min,
             Tail(rest))

\* availableNodes.reduce((min, node) => node.activeConnections < min.activeConnections ? node : min)
RECURSIVE ReduceMinConnections(_, _)
ReduceMinConnections(min, rest) ==
    IF rest = <<>> THEN min
    ELSE ReduceMinConnections(
             IF Head(rest).activeConnections < min.activeConnections THEN Head(rest) ELSE min,
             Tail(rest))

\* LeastConnectionsStrategy.selectServer
LeastConnectionsSelect(st, ns) ==
    LET availableNodes == SelectSeq(ns, Selectable)
    IN  IF Len(availableNodes) = 0
        THEN [strategy |-> st, selected |-> Null]
        ELSE [strategy |-> st,
              selected |-> {ReduceMinConnections(Head(availableNodes), Tail(availableNodes))}]

\* the loop of updateWeightedQueue over the nodes.  A queue entry is kept as
\* {id: entry.server.id, remainingWeight}: the loop points entry.server of
\* every entry it keeps to the node of ns with that id, and nothing reads
\* another field of entry.server before it has run.
RECURSIVE AddOrRefresh(_, _)
AddOrRefresh(queue, ns) ==
    IF ns = <<>> THEN queue
    ELSE LET node == Head(ns)
             known == \E i \in 1..Len(queue) : queue[i].id = node.id
         IN  IF ~known
             THEN AddOrRefresh(Append(queue, [id |-> node.id,
                                              remainingWeight |-> node.weight]),
                               Tail(ns))
             ELSE AddOrRefresh(queue, Tail(ns))

\* WeightedRoundRobinStrategy.updateWeightedQueue
updateWeightedQueue(queue, ns) ==
    LET stillThere(entry) ==
            \E i \in Positions(ns) : ns[i].id = entry.id /\ Selectable(ns[i])
    IN  AddOrRefresh(SelectSeq(queue, stillThere), ns)

\* the weighted round robin giving up when no entry has weight left
WeightedRoundRobinNoReset(st, ns) ==
    LET healthyNodes == SelectSeq(ns, Selectable)
        queue == updateWeightedQueue(st.weightedQueue, healthyNodes)
        withWeight == {i \in 1..Len(queue) : queue[i].remainingWeight > 0}
        found == CHOOSE i \in withWeight : \A j \in withWeight : i <= j
    IN  IF Len(healthyNodes) = 0
        THEN [strategy |-> st, selected |-> Null]
        ELSE IF withWeight = {}
        THEN [strategy |-> [st EXCEPT !.weightedQueue = queue], selected |-> Null]
        ELSE [strategy |-> [st EXCEPT !.weightedQueue =
                                [queue EXCEPT ![found].remainingWeight = @ - 1]],
              selected |-> {NodeOf(healthyNodes, queue[found].id)}]

\* WeightedRoundRobinStrategy.selectServer
WeightedRoundRobinSelect(st, ns) ==
    LET healthyNodes == SelectSeq(ns, Selectable)
    IN  IF Len(healthyNodes) = 0
        THEN [strategy |-> st, selected |-> Null]
        ELSE
        LET queue == updateWeightedQueue(st.weightedQueue, healthyNodes)
            withWeight == {i \in 1..Len(queue) : queue[i].remainingWeight > 0}
            found == CHOOSE i \in withWeight : \A j \in withWeight : i <= j
            reset == [i \in 1..Len(queue) |->
                         [queue[i] EXCEPT
                             !.remainingWeight = NodeOf(healthyNodes, queue[i].id).weight]]
            chosen == IF withWeight /= {} THEN found ELSE 1
            queue2 == IF withWeight /= {} THEN queue ELSE reset
        IN  IF Len(queue) = 0
            THEN [strategy |-> [st EXCEPT !.weightedQueue = queue], selected |-> Null]
            ELSE [strategy |-> [st EXCEPT !.weightedQueue =
                                    [queue2 EXCEPT ![chosen].remainingWeight = @ - 1]],
                  selected |-> {NodeOf(healthyNodes, queue2[chosen].id)}]

\* calculatePerformanceScore(node) * 1000 * node.maxConnections, an integer:
\* 0.3 cpu + 0.3 mem + 0.2 * 100 * active / max + 0.2 * 100 * min(rt / 1000, 1)
ScoreTimesMax(node) ==
    300 * node.cpuUsage * node.maxConnections
    + 300 * node.memoryUsage * node.maxConnections
    + 20000 * node.activeConnections
    + 20 * MinOf(node.responseTime, 1000) * node.maxConnections

\* a.score - b.score < 0
ScoreLess(a, b) ==
    ScoreTimesMax(a) * b.maxConnections < ScoreTimesMax(b) * a.maxConnections

\* scoredNodes.sort(...)[0]: the sort is stable, so the first node of the
\* lowest score
RECURSIVE FirstLowestScore(_, _)
FirstLowestScore(best, rest) ==
    IF rest = <<>> THEN best
    ELSE FirstLowestScore(IF ScoreLess(Head(rest), best) THEN Head(rest) ELSE best,
                          Tail(rest))

\* PerformanceBasedStrategy.selectServer
PerformanceBasedSelect(st, ns) ==
    LET availableNodes == SelectSeq(ns, Selectable)
    IN  IF Len(availableNodes) = 0
        THEN [strategy |-> st, selected |-> Null]
        ELSE [strategy |-> st,
              selected |-> {FirstLowestScore(Head(availableNodes), Tail(availableNodes))}]

\* this.strategy.selectServer(availableNodes)
StrategySelect(st, ns) ==
    IF st.name = "round-robin" THEN RoundRobinSelect(st, ns)
    ELSE IF st.name = "least-connections" THEN LeastConnectionsSelect(st, ns)
    ELSE IF st.name = "weighted-round-robin" THEN WeightedRoundRobinSelect(st, ns)
    ELSE PerformanceBasedSelect(st, ns)

\* Object.assign(node, stats)
ObjectAssign(node, stats) ==
    [f \in DOMAIN node |-> IF f \in DOMAIN stats THEN stats[f] ELSE node[f]]

---------------------------------------------------------------------------
(* LoadBalancer: sticky sessions *)

SessionIds == {"s1"}

\* getStickyServer that leaves the mapping of an unavailable server in place
getStickyServerKeep(map, ns, sessionId) ==
    IF sessionId \in DOMAIN map /\ HasId(ns, map[sessionId])
          /\ Selectable(NodeOf(ns, map[sessionId]))
    THEN [map |-> map, server |-> {NodeOf(ns, map[sessionId])}, evicted |-> FALSE]
    ELSE [map |-> map, server |-> Null, evicted |-> FALSE]

\* getStickyServer(sessionId) on the session map and the registry ns: the new
\* map, the node returned, and whether the mapping was deleted.  The server
\* ids of the model are non-empty strings, so `if (serverId)` tests that the
\* session is mapped.
getStickyServer(map, ns, sessionId) ==
    IF sessionId \notin DOMAIN map
    THEN [map |-> map, server |-> Null, evicted |-> FALSE]
    ELSE LET serverId == map[sessionId]
         IN  IF HasId(ns, serverId) /\ Selectable(NodeOf(ns, serverId))
             THEN [map |-> map, server |-> {NodeOf(ns, serverId)}, evicted |-> FALSE]
             ELSE [map |-> Del(map, sessionId), server |-> Null, evicted |-> TRUE]

---------------------------------------------------------------------------
(* LoadBalancer: the circuit breaker table *)

FailureThreshold == 5
BreakerTimeoutMs == 60000

NewBreaker == [failures |-> 0, lastFailureTime |-> 0, state |-> "closed"]

\* isCircuitOpen with the timeout compared by >= instead of >
isCircuitOpenAtTimeout(cb, serverId, t) ==
    IF serverId \notin DOMAIN cb THEN [breakers |-> cb, value |-> FALSE]
    ELSE LET breaker == cb[serverId]
             timeSinceLastFailure == t - breaker.lastFailureTime
         IN  IF breaker.state = "open"
             THEN IF timeSinceLastFailure >= BreakerTimeoutMs
                  THEN [breakers |-> [cb EXCEPT ![serverId] =
                                         [@ EXCEPT !.state = "half-open", !.failures = 0]],
                        value |-> FALSE]
                  ELSE [breakers |-> cb, value |-> TRUE]
             ELSE [breakers |-> cb, value |-> FALSE]

\* isCircuitOpen that moves to half-open without resetting the failures
isCircuitOpenKeepFailures(cb, serverId, t) ==
    IF serverId \notin DOMAIN cb THEN [breakers |-> cb, value |-> FALSE]
    ELSE LET breaker == cb[serverId]
             timeSinceLastFailure == t - breaker.lastFailureTime
         IN  IF breaker.state = "open"
             THEN IF timeSinceLastFailure > BreakerTimeoutMs
                  THEN [breakers |-> [cb EXCEPT ![serverId] =
                                         [@ EXCEPT !.state = "half-open"]],
                        value |-> FALSE]
                  ELSE [breakers |-> cb, value |-> TRUE]
             ELSE [breakers |-> cb, value |-> FALSE]

\* isCircuitOpen(serverId) at time t: the new table and the value returned
isCircuitOpen(cb, serverId, t) ==
    IF serverId \notin DOMAIN cb THEN [breakers |-> cb, value |-> FALSE]
    ELSE LET breaker == cb[serverId]
             timeSinceLastFailure == t - breaker.lastFailureTime
         IN  IF breaker.state = "open"
             THEN IF timeSinceLastFailure > BreakerTimeoutMs
                  THEN [breakers |-> [cb EXCEPT ![serverId] =
                                         [@ EXCEPT !.state = "half-open", !.failures = 0]],
                        value |-> FALSE]
                  ELSE [breakers |-> cb, value |-> TRUE]
             ELSE [breakers |-> cb, value |-> FALSE]

\* recordFailure with the threshold compared by > instead of >=
recordFailurePastThreshold(cb, serverId, t) ==
    LET breaker == IF serverId \in DOMAIN cb THEN cb[serverId] ELSE NewBreaker
        counted == [breaker EXCEPT !.failures = @ + 1, !.lastFailureTime = t]
    IN  IF counted.failures > FailureThreshold
        THEN [breakers |-> Put(cb, serverId, [counted EXCEPT !.state = "open"]),
              events |-> <<[name |-> "circuit-breaker-opened", id |-> serverId]>>]
        ELSE [breakers |-> Put(cb, serverId, counted), events |-> <<>>]

\* recordFailure(serverId) at time t: the new table and the events emitted
recordFailure(cb, serverId, t) ==
    LET breaker == IF serverId \in DOMAIN cb THEN cb[serverId] ELSE NewBreaker
        counted == [breaker EXCEPT !.failures = @ + 1, !.lastFailureTime = t]
    IN  IF counted.failures >= FailureThreshold
        THEN [breakers |-> Put(cb, serverId, [counted EXCEPT !.state = "open"]),
              events |-> <<Event("circuit-breaker-opened", serverId)>>]
        ELSE [breakers |-> Put(cb, serverId, counted), events |-> <<>>]

\* recordSuccess closing every breaker that is not closed
recordSuccessNotClosed(cb, serverId) ==
    IF serverId \in DOMAIN cb /\ cb[serverId].state /= "closed"
    THEN [breakers |-> [cb EXCEPT ![serverId] =
                           [@ EXCEPT !.state = "closed", !.failures = 0]],
          events |-> <<[name |-> "circuit-breaker-closed", id |-> serverId]>>]
    ELSE [breakers |-> cb, events |-> <<>>]

\* recordSuccess(serverId): the new table and the events emitted
recordSuccess(cb, serverId) ==
    IF serverId \in DOMAIN cb /\ cb[serverId].state = "half-open"
    THEN [breakers |-> [cb EXCEPT ![serverId] =
                           [@ EXCEPT !.state = "closed", !.failures = 0]],
          events |-> <<Event("circuit-breaker-closed", serverId)>>]
    ELSE [breakers |-> cb, events |-> <<>>]

---------------------------------------------------------------------------
(* State of the components a specification does not run *)

NoRet == [op |-> "none"]
\* what an operation declared void returns
Void == [op |-> "void"]
NoPen == [done |-> FALSE]
EmptyMap == [c \in {} |-> NewClient]
NoDenial == [c \in ClientIds |-> Undefined]
\* run[c]: n counted checks since the record was created by checkLimit at t0,
\* with no blacklistClient, whitelistClient or cleanup touching it since
NoRun == [c \in ClientIds |-> [n |-> 0, t0 |-> 0, clean |-> FALSE]]
NoBans == <<>>
NoneEnded == [id \in NodeIds |-> Undefined]
\* the callers of the balancer, none of them holding a node
Callers == 1..MaxCallers
NoCalls == [k \in Callers |-> [pc |-> "idle", id |-> ""]]
NeverChecked == [c \in ClientIds |-> Undefined]
NoneAdmitted == [c \in ClientIds |-> <<>>]
\* the times of a history that lie in the window that ends now
InWindow(times) == LET recent(time) == time > now - config.windowMs
                   IN  SelectSeq(times, recent)

NotCleared == [c \in ClientIds |-> FALSE]

\* the history of bans after blacklistClient(clientId, duration) at time t: the end of the
\* latest ban, and the latest end of all of them
Banned(b, clientId, duration, t) ==
    LET end == t + duration
        longest == IF clientId \in DOMAIN b /\ b[clientId].longest > end
                   THEN b[clientId].longest ELSE end
    IN  Put(b, clientId, [last |-> end, longest |-> longest])

\* the history of bans after whitelistClient(clientId)
Unbanned(b, clientId) == [x \in (DOMAIN b) \ {clientId} |-> b[x]]

DefaultConfig ==
    [windowMs |-> DefaultWindowMs, max |-> 1,
     skipSuccessfulRequests |-> FALSE, skipFailedRequests |-> FALSE]

IdleRL ==
    /\ config = DefaultConfig
    /\ clients = EmptyMap
    /\ lastDenial = NoDenial
    /\ run = NoRun
    /\ bans = NoBans
    /\ cleared = NotCleared
    /\ admitted = NoneAdmitted
    /\ checked = NeverChecked
    /\ eventLimiters = <<>>
    /\ cleanupTimer = TRUE

\* the balancer as constructed: no nodes, a RoundRobinStrategy, no timer
IdleLB ==
    /\ nodes = <<>>
    /\ orphans = EmptyMap
    /\ probes = <<>>
    /\ strategy = NewStrategy("round-robin")
    /\ healthCheckInterval = FALSE
    /\ healthTimers = 0
    /\ served = <<>>
    /\ stickySessionMap = <<>>
    /\ unprobed = {}
    /\ newest = NoneEnded
    /\ callers = NoCalls

\* every backend answers the requests it gets
Answering == silent = {}

IdleCB ==
    /\ circuitBreakers = EmptyMap
    /\ streak = [id \in NodeIds |-> 0]

TotalOf(c) == IF c \in DOMAIN clients THEN clients[c].totalRequests ELSE 0

---------------------------------------------------------------------------
(* Rate limiter actions *)

InitRL ==
    /\ Answering
    /\ now = Epoch
    /\ ticks = 0
    /\ config \in Configs
    /\ clients = EmptyMap
    /\ lastDenial = NoDenial
    /\ run = NoRun
    /\ bans = NoBans
    /\ cleared = NotCleared
    /\ admitted = NoneAdmitted
    /\ checked = NeverChecked
    /\ eventLimiters = <<>>
    /\ cleanupTimer = TRUE
    /\ pen = NoPen
    /\ ret = NoRet
    /\ emitted = <<>>
    /\ IdleLB
    /\ IdleCB

\* time passes between two operations
Tick ==
    /\ ticks < MaxTicks
    /\ \E d \in Steps : now' = now + d
    /\ ticks' = ticks + 1
    /\ UNCHANGED <<rlVars, pen, lbVars, cbVars, ret, emitted,
                   served, stickyVars, socketVars, timerVars, netVars>>

\* checkLimit(c, isSuccess), but for the history of the calls it lets through
CheckLimitOf(c, isSuccess) ==
        LET out == checkLimit(config, clients, c, isSuccess, now)
            r == out.result
            prevRun == IF c \in DOMAIN clients THEN run[c]
                       ELSE [n |-> 0, t0 |-> now, clean |-> TRUE]
            inRun == prevRun.clean /\ prevRun.n <= config.max
                        /\ now - prevRun.t0 < config.windowMs
        IN  /\ TotalOf(c) < MaxTotal
            /\ clients' = out.clients
            /\ ret' = [op |-> "checkLimit", client |-> c,
                       allowed |-> r.allowed, remaining |-> r.remaining,
                       retryAfter |-> r.retryAfter, counted |-> r.counted]
            /\ lastDenial' = IF r.allowed THEN lastDenial
                             ELSE [lastDenial EXCEPT ![c] =
                                      Some([t |-> now, r |-> Val(r.retryAfter)])]
            /\ run' = [run EXCEPT ![c] =
                          IF ~inRun THEN NoRun[c]
                          ELSE IF r.counted THEN [prevRun EXCEPT !.n = @ + 1]
                          ELSE prevRun]
            /\ cleared' = IF r.counted THEN [cleared EXCEPT ![c] = FALSE] ELSE cleared
            /\ UNCHANGED <<clockVars, config, bans, pen, lbVars, cbVars, emitted,
                   served, stickyVars, socketVars, timerVars, netVars>>

\* checkLimit(clientId, isSuccess)
CheckLimit ==
    \E c \in ClientIds, isSuccess \in BOOLEAN :
        CheckLimitOf(c, isSuccess) /\ UNCHANGED <<admitted, checked>>

\* checkLimit(clientId, isSuccess), the calls it lets through being recorded
CheckLimitAdmitted ==
    \E c \in ClientIds, isSuccess \in BOOLEAN :
        /\ CheckLimitOf(c, isSuccess)
        /\ Len(admitted[c]) < MaxTotal
        /\ admitted' = [admitted EXCEPT ![c] =
               InWindow(IF ret'.counted /\ ret'.allowed THEN Append(@, now) ELSE @)]
        /\ UNCHANGED checked

\* checkLimit(clientId, isSuccess), the time of the call being recorded
CheckLimitTimed ==
    \E c \in ClientIds, isSuccess \in BOOLEAN :
        /\ CheckLimitOf(c, isSuccess)
        /\ checked' = [checked EXCEPT ![c] = Some(now)]
        /\ UNCHANGED admitted

BlacklistClient ==
    \E c \in ClientIds, d \in BlacklistDurations :
        /\ clients' = blacklistClient(clients, c, d, now)
        /\ ret' = Void
        /\ run' = [run EXCEPT ![c] = NoRun[c]]
        /\ bans' = Banned(bans, c, d, now)
        /\ cleared' = [cleared EXCEPT ![c] = FALSE]
        /\ UNCHANGED <<clockVars, config, lastDenial, admitted, checked, pen, lbVars, cbVars, emitted,
                   served, stickyVars, socketVars, timerVars, netVars>>

WhitelistClient ==
    \E c \in ClientIds :
        /\ clients' = whitelistClient(clients, c)
        /\ ret' = [op |-> "whitelistClient", client |-> c]
        /\ lastDenial' = [lastDenial EXCEPT ![c] = Undefined]
        /\ run' = [run EXCEPT ![c] = NoRun[c]]
        /\ bans' = Unbanned(bans, c)
        /\ cleared' = [cleared EXCEPT ![c] = c \in DOMAIN clients]
        /\ admitted' = [admitted EXCEPT ![c] = <<>>]
        /\ UNCHANGED checked
        /\ UNCHANGED <<clockVars, config, pen, lbVars, cbVars, emitted,
                   served, stickyVars, socketVars, timerVars, netVars>>

\* a tick of the cleanup timer, while it is set: cleanup(), but for what it returns
CleanupTick ==
    /\ cleanupTimer
    /\ clients' = cleanup(config, clients, now)
    /\ run' = NoRun
    /\ UNCHANGED <<clockVars, config, lastDenial, bans, cleared, admitted, checked, pen, lbVars, cbVars, emitted,
                   served, stickyVars, socketVars, timerVars, netVars>>

\* a tick of the cleanup timer
Cleanup == CleanupTick /\ ret' = Void

\* destroy(): clearInterval of the cleanup timer, clients.clear()
Destroy ==
    /\ cleanupTimer' = FALSE
    /\ clients' = EmptyMap
    /\ ret' = [op |-> "destroy"]
    /\ lastDenial' = NoDenial
    /\ run' = NoRun
    /\ bans' = NoBans
    /\ cleared' = NotCleared
    /\ admitted' = NoneAdmitted
    /\ checked' = NeverChecked
    /\ UNCHANGED <<clockVars, config, pen, lbVars, cbVars, emitted, served, stickyVars,
                   socketVars, healthTimers, netVars>>

NextRL == Tick \/ CheckLimit \/ BlacklistClient \/ WhitelistClient \/ Cleanup

SpecRL == InitRL /\ [][NextRL]_vars

\* a limiter, the calls it lets through being recorded
NextWindow == Tick \/ CheckLimitAdmitted \/ BlacklistClient \/ WhitelistClient \/ Cleanup

SpecWindow == InitRL /\ [][NextWindow]_vars

\* clock advances of a limiter left idle, ms: a window, and just over three windows
IdleSteps == {DefaultWindowMs, 3 * DefaultWindowMs + 1}

TickIdle ==
    /\ ticks < MaxTicks
    /\ \E d \in IdleSteps : now' = now + d
    /\ ticks' = ticks + 1
    /\ UNCHANGED <<rlVars, pen, lbVars, cbVars, ret, emitted,
                   served, stickyVars, socketVars, timerVars, netVars>>

\* a limiter whose clients come back or stay away, the time of every check being recorded
\* and every tick of the cleanup timer telling its name
NextEvict ==
    \/ TickIdle
    \/ CheckLimitTimed
    \/ BlacklistClient
    \/ WhitelistClient
    \/ CleanupTick /\ ret' = [op |-> "cleanup"]

SpecEvict == InitRL /\ [][NextEvict]_vars

---------------------------------------------------------------------------
(* SocketRateLimiter: a global limiter and one limiter per configured event *)

DefaultBlacklistMs == 86400000
ClientIdLength == 10
Base64Pad == 64

Addresses == {"10.0.0.1"}
\* user-agent headers, as the bytes of their text: "Mozilla/5", "Mozilla/4"
UserAgents ==
    {Some(<<77, 111, 122, 105, 108, 108, 97, 47, 53>>),
     Some(<<77, 111, 122, 105, 108, 108, 97, 47, 52>>)}
\* socket.handshake
Sockets == [address : Addresses, userAgent : UserAgents]

Events == {"offer", "answer"}
\* the eventConfigs given to the constructor: none, one event, two events
EventConfigs ==
    {<<>>,
     [e \in {"offer"} |-> [DefaultConfig EXCEPT !.max = 1]],
     [e \in {"offer", "answer"} |->
         IF e = "offer" THEN [DefaultConfig EXCEPT !.max = 1]
         ELSE [DefaultConfig EXCEPT !.max = 2]]}

ByteAt(bytes, i) == IF i <= Len(bytes) THEN bytes[i] ELSE 0

\* the k-th character of Buffer.from(bytes).toString('base64'), as its index in the
\* alphabet, or Base64Pad for '='
Base64Char(bytes, k) ==
    LET g == (k - 1) \div 4
        b0 == ByteAt(bytes, 3 * g + 1)
        b1 == ByteAt(bytes, 3 * g + 2)
        b2 == ByteAt(bytes, 3 * g + 3)
    IN  CASE (k - 1) % 4 = 0 -> b0 \div 4
          [] (k - 1) % 4 = 1 -> (b0 % 4) * 16 + (b1 \div 16)
          [] (k - 1) % 4 = 2 -> IF 3 * g + 2 > Len(bytes) THEN Base64Pad
                                ELSE (b1 % 16) * 4 + (b2 \div 64)
          [] OTHER           -> IF 3 * g + 3 > Len(bytes) THEN Base64Pad
                                ELSE b2 % 64

Base64(bytes) == [k \in 1..(4 * ((Len(bytes) + 2) \div 3)) |-> Base64Char(bytes, k)]

\* str.slice(0, n)
SliceFromStart(str, n) == SubSeq(str, 1, MinOf(n, Len(str)))

\* getClientId(socket): `${ip}:${base64 of the user-agent, first 10 characters}`, as the
\* pair of its two parts (no character of the second part is a colon)
getClientId(socket) ==
    LET ip == socket.address
        userAgent == IF socket.userAgent = Undefined THEN <<>> ELSE Val(socket.userAgent)
    IN  <<ip, SliceFromStart(Base64(userAgent), ClientIdLength)>>

\* getClientId of every socket of the model
ClientIdOf == [socket \in Sockets |-> getClientId(socket)]

\* new RateLimiter(config)
NewLimiter(cfg) == [config |-> cfg, clients |-> EmptyMap]

\* checkEventLimit that also charges the global limiter when the event has its own
checkEventLimitBoth(cfg, cl, evl, socket, event, t) ==
    LET clientId == ClientIdOf[socket]
        glob == checkLimit(cfg, cl, clientId, TRUE, t)
    IN  IF event \notin DOMAIN evl
        THEN [clients |-> glob.clients, eventLimiters |-> evl, result |-> glob.result]
        ELSE LET out == checkLimit(evl[event].config, evl[event].clients, clientId, TRUE, t)
             IN  [clients |-> glob.clients,
                  eventLimiters |-> [evl EXCEPT ![event].clients = out.clients],
                  result |-> out.result]

\* checkEventLimit(socket, event) at time t, on the global limiter (cfg, cl) and the event
\* limiters evl
checkEventLimit(cfg, cl, evl, socket, event, t) ==
    LET clientId == ClientIdOf[socket]
    IN  IF event \notin DOMAIN evl
        THEN LET out == checkLimit(cfg, cl, clientId, TRUE, t)
             IN  [clients |-> out.clients, eventLimiters |-> evl, result |-> out.result]
        ELSE LET out == checkLimit(evl[event].config, evl[event].clients, clientId, TRUE, t)
             IN  [clients |-> cl,
                  eventLimiters |-> [evl EXCEPT ![event].clients = out.clients],
                  result |-> out.result]

\* the duration parameter of blacklistClient, with its default
DurationOrDefault(duration) ==
    IF duration = Undefined THEN DefaultBlacklistMs ELSE Val(duration)

\* blacklistSocket that bans in the global limiter only
blacklistSocketGlobalOnly(cl, evl, socket, duration, t) ==
    LET clientId == ClientIdOf[socket]
    IN  [clients |-> blacklistClient(cl, clientId, DurationOrDefault(duration), t),
         eventLimiters |-> evl]

\* blacklistSocket(socket, duration) at time t
blacklistSocket(cl, evl, socket, duration, t) ==
    LET clientId == ClientIdOf[socket]
    IN  [clients |-> blacklistClient(cl, clientId, DurationOrDefault(duration), t),
         eventLimiters |->
             [e \in DOMAIN evl |->
                 [evl[e] EXCEPT !.clients =
                     blacklistClient(@, clientId, DurationOrDefault(duration), t)]]]

TotalIn(cl, clientId) == IF clientId \in DOMAIN cl THEN cl[clientId].totalRequests ELSE 0

\* new SocketRateLimiter(globalConfig, eventConfigs)
InitSocket ==
    /\ Answering
    /\ now = Epoch
    /\ ticks = 0
    /\ config = [DefaultConfig EXCEPT !.max = 1]
    /\ clients = EmptyMap
    /\ \E eventConfigs \in EventConfigs :
           eventLimiters = [e \in DOMAIN eventConfigs |-> NewLimiter(eventConfigs[e])]
    /\ lastDenial = NoDenial
    /\ run = NoRun
    /\ bans = NoBans
    /\ cleared = NotCleared
    /\ admitted = NoneAdmitted
    /\ checked = NeverChecked
    /\ cleanupTimer = TRUE
    /\ pen = NoPen
    /\ ret = NoRet
    /\ emitted = <<>>
    /\ IdleLB
    /\ IdleCB

\* the connection middleware runs for a socket
Middleware ==
    \E socket \in Sockets :
        LET clientId == ClientIdOf[socket]
            result == checkLimit(config, clients, clientId, TRUE, now)
        IN  /\ TotalIn(clients, clientId) < MaxChecks
            /\ clients' = result.clients
            /\ ret' = [op |-> "middleware", client |-> clientId,
                       rejected |-> ~result.result.allowed,
                       retryAfter |-> result.result.retryAfter]
            /\ UNCHANGED <<clockVars, config, lastDenial, run, bans, cleared, admitted, checked, pen, lbVars,
                           cbVars, emitted, served, stickyVars, socketVars, timerVars, netVars>>

CheckEventLimit ==
    \E socket \in Sockets, event \in Events :
        LET clientId == ClientIdOf[socket]
            used == IF event \in DOMAIN eventLimiters THEN eventLimiters[event].clients
                    ELSE clients
            out == checkEventLimit(config, clients, eventLimiters, socket, event, now)
        IN  /\ TotalIn(used, clientId) < MaxChecks
            /\ clients' = out.clients
            /\ eventLimiters' = out.eventLimiters
            /\ ret' = [op |-> "checkEventLimit", client |-> clientId,
                       event |-> event, allowed |-> out.result.allowed,
                       retryAfter |-> out.result.retryAfter]
            /\ UNCHANGED <<clockVars, config, lastDenial, run, bans, cleared, admitted, checked, pen, lbVars,
                           cbVars, emitted, served, stickyVars, timerVars, netVars>>

BlacklistSocket ==
    \E socket \in Sockets, duration \in {Undefined, Some(BaseBlock)} :
        LET out == blacklistSocket(clients, eventLimiters, socket, duration, now)
        IN  /\ clients' = out.clients
            /\ eventLimiters' = out.eventLimiters
            /\ bans' = Banned(bans, ClientIdOf[socket], DurationOrDefault(duration), now)
            /\ ret' = [op |-> "blacklistSocket", client |-> ClientIdOf[socket]]
            /\ UNCHANGED <<clockVars, config, lastDenial, run, cleared, admitted, checked, pen, lbVars,
                           cbVars, emitted, served, stickyVars, timerVars, netVars>>

\* the cleanup timer of an event limiter fires
CleanupEvent ==
    \E e \in DOMAIN eventLimiters :
        /\ eventLimiters' = [eventLimiters EXCEPT ![e].clients =
                                cleanup(eventLimiters[e].config, @, now)]
        /\ ret' = Void
        /\ UNCHANGED <<clockVars, rlVars, pen, lbVars, cbVars, emitted, served, stickyVars, timerVars, netVars>>

\* time passes between two operations on the SocketRateLimiter
TickSocket ==
    /\ ticks < MaxSocketTicks
    /\ \E d \in Steps : now' = now + d
    /\ ticks' = ticks + 1
    /\ UNCHANGED <<rlVars, pen, lbVars, cbVars, ret, emitted,
                   served, stickyVars, socketVars, timerVars, netVars>>

NextSocket ==
    TickSocket \/ Middleware \/ CheckEventLimit \/ BlacklistSocket \/ Cleanup \/ CleanupEvent

SpecSocket == InitSocket /\ [][NextSocket]_vars

---------------------------------------------------------------------------
(* The penalty computation alone: getBlockDuration over its inputs *)

ClientWith(w, s) == [NewClient EXCEPT !.warnings = w, !.suspiciousActivity = s]

InitPenalty ==
    /\ Answering
    /\ now = Epoch
    /\ ticks = 0
    /\ IdleRL
    /\ ret = NoRet
    /\ emitted = <<>>
    /\ IdleLB
    /\ IdleCB
    /\ pen \in [done : {FALSE}, w1 : 0..MaxWarnings, w2 : 0..MaxWarnings, s : BOOLEAN]

\* d1, d2: the durations for warnings w1, w2 in suspicion state s;
\* suspicious, plain: the durations for warnings w1 in either suspicion state
ComputePenalty ==
    /\ ~pen.done
    /\ pen' = [done |-> TRUE, w1 |-> pen.w1, w2 |-> pen.w2, s |-> pen.s,
               d1 |-> getBlockDuration(ClientWith(pen.w1, pen.s)),
               d2 |-> getBlockDuration(ClientWith(pen.w2, pen.s)),
               suspicious |-> getBlockDuration(ClientWith(pen.w1, TRUE)),
               plain |-> getBlockDuration(ClientWith(pen.w1, FALSE))]
    /\ UNCHANGED <<clockVars, rlVars, lbVars, cbVars, ret, emitted,
                   served, stickyVars, socketVars, timerVars, netVars>>

NextPenalty == ComputePenalty

SpecPenalty == InitPenalty /\ [][NextPenalty]_vars

---------------------------------------------------------------------------
(* Load balancer actions *)

InitBalancer ==
    /\ Answering
    /\ now = Epoch
    /\ ticks = 0
    /\ IdleRL
    /\ pen = NoPen
    /\ IdleLB
    /\ IdleCB
    /\ ret = NoRet
    /\ emitted = <<>>

\* A probe holds the node object it was started on: the one registered under
\* an id (target <<"node", id>>) or one that has left the registry since
\* (target <<"orphan", id, k>>, the key of orphans).
OnNode(id) == <<"node", id>>
HeldByProbe(ps, target) == \E i \in 1..Len(ps) : ps[i].target = target
OrphanKey(id) ==
    CHOOSE key \in {<<"orphan", id, k>> : k \in 1..(MaxProbes + 1)} \ DOMAIN orphans :
        \A other \in {<<"orphan", id, k>> : k \in 1..(MaxProbes + 1)} \ DOMAIN orphans :
            key[3] <= other[3]

\* the object registered under id leaves the registry (Map.delete, or Map.set
\* of another object): it lives on while a probe holds it
OrphansAfterDetach(id) ==
    IF HasId(nodes, id) /\ HeldByProbe(probes, OnNode(id))
    THEN Put(orphans, OrphanKey(id),
             [id |-> id, isHealthy |-> NodeOf(nodes, id).isHealthy])
    ELSE orphans
ProbesAfterDetach(id) ==
    IF HasId(nodes, id) /\ HeldByProbe(probes, OnNode(id))
    THEN [i \in 1..Len(probes) |->
             IF probes[i].target = OnNode(id)
             THEN [probes[i] EXCEPT !.target = OrphanKey(id)]
             ELSE probes[i]]
    ELSE probes

\* the first part of checkServerHealth(node), up to the await of fetch
StartProbe(ps, id) == Append(ps, [target |-> OnNode(id), startTime |-> now])

RECURSIVE StartProbes(_, _)
StartProbes(ps, ns) ==
    IF ns = <<>> THEN ps ELSE StartProbes(StartProbe(ps, Head(ns).id), Tail(ns))

\* the node of addServer taken to be healthy from the start
NewNodeHealthy(cfg) ==
    [id |-> cfg.id, isHealthy |-> TRUE, activeConnections |-> 0,
     maxConnections |-> cfg.maxConnections,
     cpuUsage |-> cfg.cpuUsage, memoryUsage |-> cfg.memoryUsage,
     responseTime |-> cfg.responseTime, weight |-> cfg.weight]

\* the node addServer makes of config
NewNode(cfg) ==
    [id |-> cfg.id, isHealthy |-> FALSE, activeConnections |-> 0,
     maxConnections |-> cfg.maxConnections,
     cpuUsage |-> cfg.cpuUsage, memoryUsage |-> cfg.memoryUsage,
     responseTime |-> cfg.responseTime, weight |-> cfg.weight]

\* addServer(config), but for the history
AddServerOf(cfg) ==
    /\ Len(probes) < MaxProbes
    /\ nodes' = MapSet(nodes, NewNode(cfg))
    /\ orphans' = OrphansAfterDetach(cfg.id)
    /\ probes' = StartProbe(ProbesAfterDetach(cfg.id), cfg.id)
    /\ emitted' = Emit(<<Event("server-added", cfg.id)>>)
    /\ UNCHANGED <<clockVars, rlVars, pen, cbVars, strategy, healthCheckInterval,
                   callers, served, stickyVars, socketVars, timerVars, netVars>>

\* addServer(config)
AddServer ==
    \E cfg \in ServerConfigs :
        /\ AddServerOf(cfg)
        /\ ret' = Void
        /\ UNCHANGED <<unprobed, newest>>

\* removeServer(serverId), but for the history
RemoveServerOf(id) ==
    /\ IF HasId(nodes, id)
       THEN /\ nodes' = MapDelete(nodes, id)
            /\ orphans' = OrphansAfterDetach(id)
            /\ probes' = ProbesAfterDetach(id)
            /\ emitted' = Emit(<<Event("server-removed", id)>>)
            /\ ret' = [op |-> "removeServer", id |-> id, value |-> TRUE]
       ELSE /\ UNCHANGED <<nodes, orphans, probes>>
            /\ emitted' = <<>>
            /\ ret' = [op |-> "removeServer", id |-> id, value |-> FALSE]
    /\ UNCHANGED <<clockVars, rlVars, pen, cbVars, strategy, healthCheckInterval,
                   callers, served, stickyVars, socketVars, timerVars, netVars>>

\* removeServer(serverId)
RemoveServer == \E id \in NodeIds : RemoveServerOf(id) /\ UNCHANGED <<unprobed, newest>>

\* updateServerStats(serverId, stats), but for what it returns
UpdateServerStatsOf(id, stats) ==
    /\ IF HasId(nodes, id)
       THEN /\ nodes' = [nodes EXCEPT ![IndexOfId(nodes, id)] = ObjectAssign(@, stats)]
            /\ emitted' = Emit(<<Event("server-stats-updated", id)>>)
       ELSE /\ UNCHANGED nodes
            /\ emitted' = <<>>
    /\ UNCHANGED <<clockVars, rlVars, pen, cbVars, unprobed, newest, callers, orphans, probes, strategy,
                   healthCheckInterval, served, stickyVars, socketVars, timerVars, netVars>>

\* updateServerStats(serverId, stats)
UpdateServerStats ==
    \E id \in NodeIds, stats \in StatsUpdates : UpdateServerStatsOf(id, stats) /\ ret' = Void

\* selectServer(), but for the history of the calls and the caller
SelectServerCall ==
    LET out == StrategySelect(strategy, nodes)
    IN  /\ strategy' = out.strategy
        /\ emitted' = IF out.selected /= Null
                      THEN Emit(<<Event("server-selected", Val(out.selected).id)>>)
                      ELSE Emit(<<Event("no-server-available", "")>>)
        /\ ret' = [op |-> "selectServer", server |-> out.selected]
        /\ UNCHANGED <<clockVars, rlVars, pen, cbVars, unprobed, newest, nodes, orphans, probes,
                       healthCheckInterval, stickyVars, socketVars, timerVars, netVars>>

\* selectServer()
SelectServer == SelectServerCall /\ UNCHANGED <<served, callers>>

\* incrementConnection(serverId), but for what it returns and the caller
IncrementConnectionOf(id) ==
    /\ IF HasId(nodes, id)
       THEN /\ nodes[IndexOfId(nodes, id)].activeConnections < MaxActive
            /\ nodes' = [nodes EXCEPT ![IndexOfId(nodes, id)].activeConnections = @ + 1]
            /\ emitted' = Emit(<<Event("connection-incremented", id)>>)
       ELSE /\ UNCHANGED nodes
            /\ emitted' = <<>>
    /\ UNCHANGED <<clockVars, rlVars, pen, cbVars, unprobed, newest, orphans, probes, strategy,
                   healthCheckInterval, served, stickyVars, socketVars, timerVars, netVars>>

\* incrementConnection(serverId)
IncrementConnection ==
    \E id \in NodeIds : IncrementConnectionOf(id) /\ ret' = Void /\ UNCHANGED callers

\* decrementConnection(serverId), but for what it returns and the caller
DecrementConnectionOf(id) ==
    /\ IF HasId(nodes, id)
       THEN /\ nodes' = [nodes EXCEPT ![IndexOfId(nodes, id)].activeConnections =
                            MaxOf(0, @ - 1)]
            /\ emitted' = Emit(<<Event("connection-decremented", id)>>)
       ELSE /\ UNCHANGED nodes
            /\ emitted' = <<>>
    /\ UNCHANGED <<clockVars, rlVars, pen, cbVars, unprobed, newest, orphans, probes, strategy,
                   healthCheckInterval, served, stickyVars, socketVars, timerVars, netVars>>

\* decrementConnection(serverId)
DecrementConnection ==
    \E id \in NodeIds : DecrementConnectionOf(id) /\ ret' = Void /\ UNCHANGED callers

\* setStrategy(strategy), given a new strategy object
SetStrategy ==
    \E name \in StrategyNames :
        /\ strategy' = NewStrategy(name)
        /\ emitted' = Emit(<<Event("strategy-changed", name)>>)
        /\ ret' = Void
        /\ UNCHANGED <<clockVars, rlVars, pen, cbVars, unprobed, newest, callers, nodes, orphans, probes,
                       healthCheckInterval,
                   served, stickyVars, socketVars, timerVars, netVars>>

\* startHealthChecks that sets a timer whether one is running or not
startHealthChecksAgain(interval, timers) ==
    [interval |-> TRUE, timers |-> timers + 1,
     events |-> <<Event("health-checks-started", "")>>]

\* startHealthChecks(), given whether this.healthCheckInterval is set and the number of
\* timers that are set
startHealthChecks(interval, timers) ==
    IF interval
    THEN [interval |-> interval, timers |-> timers, events |-> <<>>]
    ELSE [interval |-> TRUE, timers |-> timers + 1,
          events |-> <<Event("health-checks-started", "")>>]

\* stopHealthChecks(): clearInterval of the timer this.healthCheckInterval holds
stopHealthChecks(interval, timers) ==
    IF interval
    THEN [interval |-> FALSE, timers |-> timers - 1,
          events |-> <<Event("health-checks-stopped", "")>>]
    ELSE [interval |-> interval, timers |-> timers, events |-> <<>>]

\* startHealthChecks(), but for what it returns
StartHealthChecksCall ==
    LET out == startHealthChecks(healthCheckInterval, healthTimers)
    IN  /\ healthCheckInterval' = out.interval
        /\ healthTimers' = out.timers
        /\ emitted' = Emit(out.events)
        /\ UNCHANGED <<clockVars, rlVars, pen, cbVars, unprobed, newest, callers, nodes, orphans, probes,
                       strategy, served, stickyVars, socketVars, cleanupTimer, netVars>>

\* startHealthChecks()
StartHealthChecks == StartHealthChecksCall /\ ret' = Void

\* stopHealthChecks(), but for what it returns
StopHealthChecksCall ==
    LET out == stopHealthChecks(healthCheckInterval, healthTimers)
    IN  /\ healthCheckInterval' = out.interval
        /\ healthTimers' = out.timers
        /\ emitted' = Emit(out.events)
        /\ UNCHANGED <<clockVars, rlVars, pen, cbVars, unprobed, newest, callers, nodes, orphans, probes,
                       strategy, served, stickyVars, socketVars, cleanupTimer, netVars>>

\* stopHealthChecks()
StopHealthChecks == StopHealthChecksCall /\ ret' = Void

\* a tick of a health-check timer that is set: performHealthChecks() up to its await,
\* with at most `bound` probes in flight after it, but for what it returns and the history
PerformHealthChecksUpTo(bound) ==
    /\ healthTimers > 0
    /\ Len(probes) + Len(nodes) <= bound
    /\ probes' = StartProbes(probes, nodes)
    /\ emitted' = <<>>
    /\ UNCHANGED <<clockVars, rlVars, pen, cbVars, unprobed, callers, nodes, orphans, strategy,
                   healthCheckInterval,
                   served, stickyVars, socketVars, timerVars, netVars>>

\* a tick of a health-check timer that is set, but for what it returns
PerformHealthChecksTick == PerformHealthChecksUpTo(MaxProbes) /\ UNCHANGED newest

\* a tick of a health-check timer that is set
PerformHealthChecks == PerformHealthChecksTick /\ ret' = Void

\* what fetch gives a probe: response.ok, a response that is not ok, an error
ProbeOutcomes == {"ok", "notok", "throw"}

\* the events of a probe that reports the health of the node whether it changed or not
ProbeEventsEveryTime(id, wasHealthy, outcome) ==
    IF outcome = "throw"
    THEN <<Event("server-unhealthy", id), Event("health-check-failed", id)>>
    ELSE <<Event(IF outcome = "ok" THEN "server-healthy" ELSE "server-unhealthy", id),
           Event("health-check-completed", id)>>

\* the events of a probe that ends with `outcome` on a node that was `wasHealthy`
ProbeEvents(id, wasHealthy, outcome) ==
    IF outcome = "throw"
    THEN (IF wasHealthy THEN <<Event("server-unhealthy", id)>> ELSE <<>>)
         \o <<Event("health-check-failed", id)>>
    ELSE (IF wasHealthy /= (outcome = "ok")
          THEN <<Event(IF outcome = "ok" THEN "server-healthy" ELSE "server-unhealthy", id)>>
          ELSE <<>>)
         \o <<Event("health-check-completed", id)>>

\* the probe probes[i] held the node registered now
OfRegistered(i) == probes[i].target[1] = "node"

\* the rest of checkServerHealth(node), after the await of fetch, for the
\* probe probes[i], but for the history
ProbeCompleteOf(i, outcome) ==
    LET probe == probes[i]
        rest == SubSeq(probes, 1, i - 1) \o SubSeq(probes, i + 1, Len(probes))
        node == IF OfRegistered(i) THEN NodeOf(nodes, probe.target[2])
                ELSE orphans[probe.target]
        isHealthy == outcome = "ok"
    IN  /\ probe.target[2] \notin silent
        /\ probes' = rest
        /\ IF OfRegistered(i)
           THEN /\ nodes' = [nodes EXCEPT ![IndexOfId(nodes, node.id)] =
                                [@ EXCEPT !.isHealthy = isHealthy,
                                          !.responseTime = now - probe.startTime]]
                /\ UNCHANGED orphans
           ELSE /\ UNCHANGED nodes
                /\ orphans' = IF HeldByProbe(rest, probe.target)
                              THEN [orphans EXCEPT ![probe.target].isHealthy = isHealthy]
                              ELSE Del(orphans, probe.target)
        /\ emitted' = Emit(ProbeEvents(node.id, node.isHealthy, outcome))
        /\ ret' = Void
        /\ UNCHANGED <<clockVars, rlVars, pen, cbVars, strategy, healthCheckInterval,
                       callers, served, stickyVars, socketVars, timerVars, netVars>>

\* the rest of checkServerHealth(node), after the await of fetch
ProbeComplete ==
    \E i \in 1..Len(probes), outcome \in ProbeOutcomes :
        ProbeCompleteOf(i, outcome) /\ UNCHANGED <<unprobed, newest>>

NextLB ==
    \/ AddServer \/ RemoveServer \/ UpdateServerStats \/ SelectServer
    \/ IncrementConnection \/ DecrementConnection \/ SetStrategy
    \/ StartHealthChecks \/ StopHealthChecks \/ PerformHealthChecks \/ ProbeComplete

SpecLB == InitBalancer /\ [][NextLB]_vars

---------------------------------------------------------------------------
(* The strategies on a static registry: selectServer called again and again *)
(* while no other operation of the balancer runs                           *)

StaticIds == <<"A", "B", "C">>

\* the node registered under id, in any state of health and load
StaticNodes(id) ==
    [id : {id}, isHealthy : BOOLEAN, activeConnections : 0..MaxActive,
     maxConnections : {2}, cpuUsage : {10}, memoryUsage : {10},
     responseTime : {0}, weight : 0..MaxWeight]

\* the registries of the first n ids
StaticRegistries(n) ==
    IF n = 0 THEN {<<>>}
    ELSE IF n = 1 THEN {<<a>> : a \in StaticNodes(StaticIds[1])}
    ELSE IF n = 2 THEN {<<a, b>> : a \in StaticNodes(StaticIds[1]),
                                   b \in StaticNodes(StaticIds[2])}
    ELSE {<<a, b, c>> : a \in StaticNodes(StaticIds[1]),
                        b \in StaticNodes(StaticIds[2]),
                        c \in StaticNodes(StaticIds[3])}

\* the strategy objects a run starts with: new ones, and a RoundRobinStrategy
\* whose currentIndex earlier calls have left anywhere below Len(StaticIds)
StartStrategies ==
    {NewStrategy(name) : name \in StrategyNames}
    \cup {[NewStrategy("round-robin") EXCEPT !.currentIndex = i] :
              i \in 0..(Len(StaticIds) - 1)}

\* what selectServer returned, as kept in served
ServedOf(r) == IF r.server = Null THEN "none" ELSE Val(r.server).id

InitStatic ==
    /\ Answering
    /\ now = Epoch
    /\ ticks = 0
    /\ IdleRL
    /\ pen = NoPen
    /\ IdleCB
    /\ ret = NoRet
    /\ emitted = <<>>
    /\ orphans = EmptyMap
    /\ probes = <<>>
    /\ healthCheckInterval = FALSE
    /\ healthTimers = 0
    /\ served = <<>>
    /\ stickySessionMap = <<>>
    /\ unprobed = {}
    /\ newest = NoneEnded
    /\ callers = NoCalls
    /\ strategy \in StartStrategies
    /\ \E n \in 0..Len(StaticIds) : nodes \in StaticRegistries(n)
    \* only the weighted round robin reads weight
    /\ strategy.name /= "weighted-round-robin"
           => \A i \in Positions(nodes) : nodes[i].weight = 1

\* selectServer() in a run of calls
SelectServerInRun ==
    /\ Len(served) < MaxCalls
    /\ SelectServerCall
    /\ served' = Append(served, ServedOf(ret'))
    /\ UNCHANGED callers

NextStatic == SelectServerInRun

SpecStatic == InitStatic /\ [][NextStatic]_vars

---------------------------------------------------------------------------
(* Sticky session actions *)

\* assignStickySession(sessionId, serverId)
AssignStickySession ==
    \E sessionId \in SessionIds, serverId \in NodeIds :
        /\ stickySessionMap' = Put(stickySessionMap, sessionId, serverId)
        /\ emitted' = <<>>
        /\ ret' = [op |-> "assignStickySession", session |-> sessionId]
        /\ UNCHANGED <<clockVars, rlVars, pen, lbVars, cbVars, served, socketVars, timerVars, netVars>>

\* getStickyServer(sessionId)
GetStickyServer ==
    \E sessionId \in SessionIds :
        LET out == getStickyServer(stickySessionMap, nodes, sessionId)
        IN  /\ stickySessionMap' = out.map
            /\ emitted' = <<>>
            /\ ret' = [op |-> "getStickyServer", session |-> sessionId,
                       server |-> out.server, evicted |-> out.evicted]
            /\ UNCHANGED <<clockVars, rlVars, pen, lbVars, cbVars, served, socketVars, timerVars, netVars>>

\* removeStickySession(sessionId)
RemoveStickySession ==
    \E sessionId \in SessionIds :
        /\ stickySessionMap' = Del(stickySessionMap, sessionId)
        /\ emitted' = <<>>
        /\ ret' = [op |-> "removeStickySession", session |-> sessionId]
        /\ UNCHANGED <<clockVars, rlVars, pen, lbVars, cbVars, served, socketVars, timerVars, netVars>>

\* addServer(config), the node entering unprobed
AddServerUnprobed ==
    \E cfg \in ServerConfigs :
        /\ AddServerOf(cfg)
        /\ ret' = [op |-> "addServer", id |-> cfg.id]
        /\ unprobed' = unprobed \cup {cfg.id}
        /\ UNCHANGED newest

\* removeServer(serverId), the node leaving unprobed
RemoveServerUnprobed ==
    \E id \in NodeIds :
        RemoveServerOf(id) /\ unprobed' = unprobed \ {id} /\ UNCHANGED newest

\* the end of a probe, the registered node leaving unprobed when it was found ok
ProbeCompleteUnprobed ==
    \E i \in 1..Len(probes), outcome \in ProbeOutcomes :
        /\ ProbeCompleteOf(i, outcome)
        /\ unprobed' = IF OfRegistered(i) /\ outcome = "ok"
                        THEN unprobed \ {probes[i].target[2]}
                        ELSE unprobed
        /\ UNCHANGED newest

\* sessions pinned to nodes that come, go, fail and fill up
NextSticky ==
    \/ AddServerUnprobed \/ RemoveServerUnprobed \/ ProbeCompleteUnprobed
    \/ SelectServer
    \/ IncrementConnection \/ DecrementConnection
    \/ StartHealthChecks \/ PerformHealthChecks
    \/ AssignStickySession \/ GetStickyServer \/ RemoveStickySession

SpecSticky == InitBalancer /\ [][NextSticky]_vars

---------------------------------------------------------------------------
(* Circuit breaker actions *)

\* a breaker that recordFailure has not counted on: none, or closed with 0 failures
Fresh(id) ==
    \/ id \notin DOMAIN circuitBreakers
    \/ circuitBreakers[id].state = "closed" /\ circuitBreakers[id].failures = 0

FailuresOf(id) == IF id \in DOMAIN circuitBreakers THEN circuitBreakers[id].failures ELSE 0

\* recordFailure(serverId)
RecordFailure ==
    \E id \in NodeIds :
        LET out == recordFailure(circuitBreakers, id, now)
        IN  /\ FailuresOf(id) < MaxFailures
            /\ circuitBreakers' = out.breakers
            /\ streak' = [streak EXCEPT ![id] =
                             MinOf((IF Fresh(id) THEN 0 ELSE @) + 1, FailureThreshold + 1)]
            /\ emitted' = Emit(out.events)
            /\ ret' = [op |-> "recordFailure", id |-> id]
            /\ UNCHANGED <<clockVars, rlVars, pen, lbVars,
                   served, stickyVars, socketVars, timerVars, netVars>>

\* recordSuccess(serverId)
RecordSuccess ==
    \E id \in NodeIds :
        LET out == recordSuccess(circuitBreakers, id)
        IN  /\ circuitBreakers' = out.breakers
            /\ emitted' = Emit(out.events)
            /\ ret' = [op |-> "recordSuccess", id |-> id]
            /\ UNCHANGED <<clockVars, rlVars, pen, lbVars, streak,
                   served, stickyVars, socketVars, timerVars, netVars>>

\* isCircuitOpen(serverId)
IsCircuitOpen ==
    \E id \in NodeIds :
        LET out == isCircuitOpen(circuitBreakers, id, now)
        IN  /\ circuitBreakers' = out.breakers
            /\ emitted' = <<>>
            /\ ret' = [op |-> "isCircuitOpen", id |-> id, value |-> out.value]
            /\ UNCHANGED <<clockVars, rlVars, pen, lbVars, streak,
                   served, stickyVars, socketVars, timerVars, netVars>>

NextCB == Tick \/ RecordFailure \/ RecordSuccess \/ IsCircuitOpen

SpecCB == InitBalancer /\ [][NextCB]_vars

\* the balancer selecting among probed nodes while failures are recorded
NextLBCB ==
    \/ AddServer \/ ProbeComplete \/ SelectServer
    \/ RecordFailure \/ RecordSuccess \/ IsCircuitOpen

SpecLBCB == InitBalancer /\ [][NextLBCB]_vars

\* the activeConnections a caller of updateServerStats reports: any number
ConnectionUpdates == {[activeConnections |-> n] : n \in -1..MaxActive}

\* updateServerStats(serverId, {activeConnections})
UpdateConnections ==
    \E id \in NodeIds, stats \in ConnectionUpdates :
        UpdateServerStatsOf(id, stats) /\ ret' = Void

\* connections counted on nodes that come, go and are probed
NextConnections ==
    \/ AddServer \/ RemoveServer \/ ProbeComplete
    \/ StartHealthChecks \/ StopHealthChecks \/ PerformHealthChecks
    \/ IncrementConnection \/ DecrementConnection \/ UpdateConnections

SpecConnections == InitBalancer /\ [][NextConnections]_vars

\* isBlocked(clientId)
isBlocked(cl, clientId, t) ==
    IF clientId \notin DOMAIN cl THEN FALSE
    ELSE cl[clientId].blocked /\ Truthy(cl[clientId].blockedUntil)
            /\ t < Val(cl[clientId].blockedUntil)

\* getClientStats(clientId): the record or null
getClientStats(cl, clientId) ==
    IF clientId \in DOMAIN cl THEN Some(cl[clientId]) ELSE Null

\* the sum of totalRequests over the clients cs of the map cl
RECURSIVE SumTotalRequests(_, _)
SumTotalRequests(cl, cs) ==
    IF cs = {} THEN 0
    ELSE LET c == CHOOSE x \in cs : TRUE
         IN  cl[c].totalRequests + SumTotalRequests(cl, cs \ {c})

\* getStats()
getStats(cl) ==
    [totalClients |-> Cardinality(DOMAIN cl),
     blockedClients |-> Cardinality({c \in DOMAIN cl : cl[c].blocked}),
     suspiciousClients |-> Cardinality({c \in DOMAIN cl : cl[c].suspiciousActivity}),
     totalRequests |-> SumTotalRequests(cl, DOMAIN cl)]

IsBlocked ==
    \E c \in ClientIds :
        /\ ret' = [op |-> "isBlocked", client |-> c, value |-> isBlocked(clients, c, now)]
        /\ emitted' = <<>>
        /\ UNCHANGED <<clockVars, rlVars, pen, lbVars, cbVars, served, stickyVars,
                       socketVars, timerVars, netVars>>

GetClientStats ==
    \E c \in ClientIds :
        /\ ret' = [op |-> "getClientStats", client |-> c,
                   value |-> getClientStats(clients, c)]
        /\ emitted' = <<>>
        /\ UNCHANGED <<clockVars, rlVars, pen, lbVars, cbVars, served, stickyVars,
                       socketVars, timerVars, netVars>>

\* the operations on a node, telling which one was called
UpdateServerStatsNamed ==
    \E id \in NodeIds :
        /\ UpdateServerStatsOf(id, [activeConnections |-> 0])
        /\ ret' = [op |-> "updateServerStats", id |-> id]
IncrementConnectionNamed ==
    \E id \in NodeIds :
        /\ IncrementConnectionOf(id)
        /\ ret' = [op |-> "incrementConnection", id |-> id]
        /\ UNCHANGED callers
DecrementConnectionNamed ==
    \E id \in NodeIds :
        /\ DecrementConnectionOf(id)
        /\ ret' = [op |-> "decrementConnection", id |-> id]
        /\ UNCHANGED callers

\* a limiter and a balancer called with ids they know and ids they do not know
NextUnknown ==
    \/ AddServerUnprobed \/ RemoveServerUnprobed \/ ProbeCompleteUnprobed
    \/ UpdateServerStatsNamed \/ IncrementConnectionNamed \/ DecrementConnectionNamed
    \/ AssignStickySession \/ GetStickyServer \/ RemoveStickySession
    \/ (RecordFailure /\ \A id \in DOMAIN circuitBreakers' :
                             circuitBreakers'[id].failures <= MaxSetup)
    \/ RecordSuccess \/ IsCircuitOpen
    \/ (CheckLimit /\ \A c \in DOMAIN clients' : clients'[c].totalRequests <= MaxSetup)
    \/ WhitelistClient \/ IsBlocked \/ GetClientStats

SpecUnknown == InitBalancer /\ [][NextUnknown]_vars

\* a balancer whose backends may be of those that accept a request and never answer it
InitProbes ==
    /\ silent \in SUBSET NodeIds
    /\ now = Epoch
    /\ ticks = 0
    /\ IdleRL
    /\ pen = NoPen
    /\ IdleLB
    /\ IdleCB
    /\ ret = NoRet
    /\ emitted = <<>>

\* the rest of checkServerHealth(node) for a probe of the backend of that id: fetch is
\* called with no timeout and no abort signal, the await ends when the backend answers or
\* the connection fails
ProbeCompleteFor(id) ==
    \E i \in 1..Len(probes), outcome \in ProbeOutcomes :
        /\ probes[i].target[2] = id
        /\ ProbeCompleteOf(i, outcome)
        /\ UNCHANGED <<unprobed, newest>>

\* caller k calls selectServer() and keeps the node it is given
CallerSelects(k) ==
    /\ callers[k].pc = "idle"
    /\ SelectServerCall
    /\ callers' = IF ret'.server = Null THEN callers
                   ELSE [callers EXCEPT ![k] = [pc |-> "selected",
                                                id |-> Val(ret'.server).id]]
    /\ UNCHANGED served

\* caller k calls incrementConnection on the node selectServer gave it
CallerIncrements(k) ==
    /\ callers[k].pc = "selected"
    /\ IncrementConnectionOf(callers[k].id)
    /\ ret' = Void
    /\ callers' = [callers EXCEPT ![k].pc = "working"]

\* caller k has finished its unit of work and calls decrementConnection, once
CallerFinishes(k) ==
    /\ callers[k].pc = "working"
    /\ DecrementConnectionOf(callers[k].id)
    /\ ret' = Void
    /\ callers' = [callers EXCEPT ![k] = [pc |-> "idle", id |-> ""]]

\* callers that select, increment and decrement, in any interleaving
NextCallers ==
    \/ AddServer
    \/ ProbeComplete
    \/ \E k \in Callers : CallerSelects(k)
    \/ \E k \in Callers : CallerIncrements(k)
    \/ \E k \in Callers : CallerFinishes(k)

SpecCallers == InitBalancer /\ [][NextCallers]_vars

\* addServer(config), the probe it starts being the last started on the node
AddServerRacing ==
    \E cfg \in ServerConfigs :
        /\ AddServerOf(cfg)
        /\ ret' = Void
        /\ newest' = [newest EXCEPT ![cfg.id] = Undefined]
        /\ UNCHANGED unprobed

\* a tick of the timer while earlier probes are in flight, the probes it starts being the
\* last started on their nodes
PerformHealthChecksRacing ==
    /\ PerformHealthChecksUpTo(MaxInFlight)
    /\ ret' = Void
    /\ newest' = [id \in NodeIds |-> IF HasId(nodes, id) THEN Undefined ELSE newest[id]]

\* probes[i] is the probe started last on its node: none started after it is in flight,
\* and none has ended
StartedLast(i) ==
    /\ \A j \in (i + 1)..Len(probes) : probes[j].target /= probes[i].target
    /\ newest[probes[i].target[2]] = Undefined

\* the end of a probe, in any order of the probes in flight
ProbeCompleteRacing ==
    \E i \in 1..Len(probes), outcome \in ProbeOutcomes :
        /\ ProbeCompleteOf(i, outcome)
        /\ newest' = IF OfRegistered(i) /\ StartedLast(i)
                      THEN [newest EXCEPT ![probes[i].target[2]] = Some(outcome = "ok")]
                      ELSE newest
        /\ UNCHANGED unprobed

\* probes of one node in flight at once
NextRace ==
    \/ AddServerRacing
    \/ StartHealthChecks
    \/ PerformHealthChecksRacing
    \/ ProbeCompleteRacing

SpecRace == InitBalancer /\ [][NextRace]_vars

NextProbes ==
    \/ AddServer \/ RemoveServer
    \/ StartHealthChecks \/ StopHealthChecks \/ PerformHealthChecks
    \/ \E id \in NodeIds : ProbeCompleteFor(id)

\* a fetch that has settled is resumed by the event loop
SpecProbes ==
    /\ InitProbes
    /\ [][NextProbes]_vars
    /\ \A id \in NodeIds : WF_vars(ProbeCompleteFor(id))

\* the timers of a balancer and of a limiter, every call and every tick telling its name
NextTimers ==
    \/ StartHealthChecksCall /\ ret' = [op |-> "startHealthChecks"]
    \/ StopHealthChecksCall /\ ret' = [op |-> "stopHealthChecks", cleared |-> healthTimers]
    \/ PerformHealthChecksTick /\ ret' = [op |-> "performHealthChecks"]
    \/ AddServer \/ ProbeComplete
    \/ CleanupTick /\ ret' = [op |-> "cleanup"]
    \/ Destroy
    \/ (CheckLimit /\ \A c \in DOMAIN clients' : clients'[c].totalRequests <= MaxSetup)

SpecTimers == InitBalancer /\ [][NextTimers]_vars

\* nodes that come and go while sessions are pinned to them and failures are recorded
NextRemove ==
    \/ AddServerUnprobed \/ RemoveServerUnprobed \/ ProbeCompleteUnprobed
    \/ SelectServer \/ AssignStickySession \/ GetStickyServer \/ RecordFailure

SpecRemove == InitBalancer /\ [][NextRemove]_vars

---------------------------------------------------------------------------
(* Claims about the rate limiter *)

\* a step that is a checkLimit call of client c
IsCheckOf(c) == ret'.op = "checkLimit" /\ ret'.client = c /\ ticks' = ticks
\* a step that is a call of whitelistClient(c)
IsWhitelistOf(c) == ret'.op = "whitelistClient" /\ ret'.client = c /\ ticks' = ticks

\* C1: once checkLimit has denied a client with retryAfter = r at time t, a
\* further checkLimit of that client before t + r seconds (no whitelistClient
\* in between) is denied too, with a retryAfter not larger than r.
C1_DenialLastsRetryAfter ==
    [][\A c \in ClientIds :
          (/\ lastDenial[c] /= Undefined
           /\ IsCheckOf(c)
           /\ now < Val(lastDenial[c]).t + Val(lastDenial[c]).r * 1000)
          => (/\ ~ret'.allowed
              /\ Val(ret'.retryAfter) <= Val(lastDenial[c]).r)]_vars

\* a step that sets blocked = true on the record of c, or stores another blockedUntil
\* on the blocked record
SetsBlocked(c) ==
    /\ c \in DOMAIN clients'
    /\ clients'[c].blocked
    /\ \/ c \notin DOMAIN clients
       \/ ~clients[c].blocked
       \/ clients'[c].blockedUntil /= clients[c].blockedUntil

\* C27: in every reachable state a record with blocked = true has blockedUntil defined,
\* and whenever checkLimit or blacklistClient sets blocked = true the blockedUntil it
\* stores is strictly later than the current time.
C27_BlockedUntilStrictlyLater ==
    [][\A c \in ClientIds :
          /\ (c \in DOMAIN clients' /\ clients'[c].blocked)
                => clients'[c].blockedUntil /= Undefined
          /\ SetsBlocked(c) => Val(clients'[c].blockedUntil) > now]_vars

\* C28: for every client and every interval of length windowMs, the counted checkLimit
\* calls answered allowed = true within the interval are at most max (no whitelistClient
\* for the client in the interval), a block imposed and lazily lifted in between included.
C28_AtMostMaxPerWindow ==
    \A c \in ClientIds : Len(InWindow(admitted[c])) <= config.max

\* C29: in every reachable state the requests of every client record are strictly
\* increasing, several counted checks of one client at one clock reading included.
C29_RequestsStrictlyIncreasing ==
    \A c \in DOMAIN clients :
        \A i \in 1..Len(clients[c].requests) - 1 :
            clients[c].requests[i] < clients[c].requests[i + 1]

\* a step that is a tick of the cleanup timer
IsCleanup == ret'.op = "cleanup" /\ ticks' = ticks
\* the clients whose record the step deletes
Evicted == DOMAIN clients \ DOMAIN clients'

\* C30: cleanup deletes a record only if the client is not blocked and has had no
\* checkLimit call within the last three window-lengths: a client checked more recently
\* (its checks skipped from counting, or just whitelisted or unblocked, included) and a
\* client with blocked = true are never evicted.
C30_EvictsOnlyIdleUnblocked ==
    [][IsCleanup =>
          \A c \in Evicted :
              /\ ~clients[c].blocked
              /\ checked[c] /= Undefined
                    => Val(checked[c]) <= now - 3 * config.windowMs]_vars

\* the warnings of client c in the map cl: none for a client without a record
WarningsOf(cl, c) == IF c \in DOMAIN cl THEN cl[c].warnings ELSE 0
\* whether client c is blocked in the map cl
BlockedIn(cl, c) == c \in DOMAIN cl /\ cl[c].blocked

\* C31: the warnings of a client never decrease under checkLimit, blacklistClient and
\* cleanup, and they increase by exactly one each time the client becomes blocked.
C31_WarningsCountBlocks ==
    [][\A c \in ClientIds :
          ~IsWhitelistOf(c) =>
              /\ WarningsOf(clients', c) >= WarningsOf(clients, c)
              /\ (~BlockedIn(clients, c) /\ BlockedIn(clients', c))
                    => WarningsOf(clients', c) = WarningsOf(clients, c) + 1]_vars

\* whether client c is flagged suspicious in the map cl
SuspiciousIn(cl, c) == c \in DOMAIN cl /\ cl[c].suspiciousActivity

\* C32, as stated: once suspiciousActivity is true for a client identity it is true for
\* that identity in every later state, across checkLimit, lazy unblocking and cleanup,
\* until whitelistClient is called for that client.
C32_SuspiciousUntilWhitelisted ==
    [][\A c \in ClientIds :
          (SuspiciousIn(clients, c) /\ ~IsWhitelistOf(c)) => SuspiciousIn(clients', c)]_vars

\* C32, amended: once suspiciousActivity is true on the record of a client it stays true
\* for as long as that record exists, across checkLimit, lazy unblocking and the
\* unblocking of cleanup, until whitelistClient is called for that client; a record that
\* cleanup evicts takes the flag with it.
C32_SuspiciousWhileRecorded ==
    [][\A c \in ClientIds :
          (SuspiciousIn(clients, c) /\ ~IsWhitelistOf(c) /\ c \in DOMAIN clients')
              => SuspiciousIn(clients', c)]_vars

\* a tick of the cleanup timer has unblocked a banned client that was never checked, and
\* its record is still flagged
C32_Witness ==
    /\ ret.op = "cleanup"
    /\ \E c \in DOMAIN clients :
          /\ checked[c] = Undefined
          /\ ~clients[c].blocked
          /\ clients[c].suspiciousActivity

\* the record of client c in the map cl, as checkLimit finds or creates it
RecordOf(cl, c) == IF c \in DOMAIN cl THEN cl[c] ELSE NewClient

\* what a skipped checkLimit(c, isSuccess) made now leaves of the record of c, given the
\* requests it is to leave
SkippedLeaves(c, isSuccess, requests) ==
    LET before == RecordOf(clients, c)
        out == checkLimit(config, clients, c, isSuccess, now)
        after == out.clients[c]
    IN  /\ out.result.allowed
        /\ after.requests = requests
        /\ after.totalRequests = before.totalRequests
        /\ after.warnings = before.warnings
        /\ after.suspiciousActivity = before.suspiciousActivity
        /\ ~after.blocked

\* C33, as stated: a checkLimit call of a skipped outcome class, for a client that is not
\* currently blocked, returns allowed = true and leaves requests, totalRequests, warnings
\* and suspiciousActivity unchanged, so that skipped calls alone never cause a block.
C33_SkippedCallChangesNothing ==
    \A c \in ClientIds, isSuccess \in BOOLEAN :
        (Skipped(config, isSuccess) /\ ~StillBlocked(RecordOf(clients, c), now))
            => SkippedLeaves(c, isSuccess, RecordOf(clients, c).requests)

\* C33, amended: such a call returns allowed = true and leaves totalRequests, warnings and
\* suspiciousActivity unchanged and the client unblocked; it leaves requests unchanged
\* when the record has blocked = false, and empties requests when it lifts a block that
\* has expired.
C33_SkippedCallCountsNothing ==
    \A c \in ClientIds, isSuccess \in BOOLEAN :
        (Skipped(config, isSuccess) /\ ~StillBlocked(RecordOf(clients, c), now))
            => SkippedLeaves(c, isSuccess,
                             IF RecordOf(clients, c).blocked THEN <<>>
                             ELSE RecordOf(clients, c).requests)

\* a skipped call has just been answered for a client that has requests in its window
C33_Witness ==
    /\ ret.op = "checkLimit"
    /\ ret.allowed
    /\ ~ret.counted
    /\ clients[ret.client].requests /= <<>>

\* a step in which checkLimit blocks client c, its window being full
IsBlockOf(c) == IsCheckOf(c) /\ ret'.counted /\ ~ret'.allowed

\* C34: whenever checkLimit imposes a block because the windowed count has reached max,
\* the suspiciousActivity flag of the client is true at that moment, so that the block
\* lasts base * min(warnings, 10) * 2, the suspicious branch, and never the exponential one.
C34_BlockAlwaysSuspicious ==
    [][\A c \in ClientIds :
          IsBlockOf(c) =>
              /\ clients'[c].blocked
              /\ clients'[c].suspiciousActivity
              /\ clients'[c].blockedUntil =
                    Some(now + BaseBlock * MinOf(RecordOf(clients, c).warnings, 10) * 2)]_vars

\* checkLimit has just blocked a client that had been warned before, on a window that
\* filled slowly
C34_Witness ==
    /\ ret.op = "checkLimit"
    /\ ret.counted
    /\ ~ret.allowed
    /\ clients[ret.client].warnings >= 2
    /\ \E i \in 1..Len(clients[ret.client].requests) :
          clients[ret.client].requests[i] <= now - BurstWindowMs

\* C40: at any time getStats().blockedClients is the number of client identities for
\* which isBlocked(clientId) returns true at that time.
C40_BlockedClientsCountsBlocked ==
    getStats(clients).blockedClients =
        Cardinality({c \in ClientIds : isBlocked(clients, c, now)})

\* C4: for a fresh client the first max counted checkLimit calls within one
\* window are allowed with remaining = max-1, ..., 0 in that order, and the
\* next one is denied with retryAfter = 60, the base penalty in seconds.
C4_FirstMaxThenDenied60 ==
    \A c \in ClientIds :
        (ret.op = "checkLimit" /\ ret.client = c /\ ret.counted /\ run[c].clean)
        => /\ run[c].n <= config.max
                => (ret.allowed /\ ret.remaining = config.max - run[c].n)
           /\ run[c].n = config.max + 1
                => (~ret.allowed /\ ret.retryAfter = Some(CeilDiv1000(BaseBlock)))

\* C5: for equal warnings the penalty is strictly greater with
\* suspiciousActivity = true than with suspiciousActivity = false.
C5_SuspiciousStrictlyGreater ==
    pen.done => pen.suspicious > pen.plain

\* C6: for a fixed suspiciousActivity the penalty is monotonically
\* non-decreasing in warnings: w1 <= w2 implies duration(w1) <= duration(w2).
C6_PenaltyMonotone ==
    (pen.done /\ pen.w1 <= pen.w2) => pen.d1 <= pen.d2

\* C6 witness: two different warning counts past the caps, compared
C6_Witness ==
    pen.done /\ pen.w1 = 4 /\ pen.w2 = MaxWarnings /\ ~pen.s /\ pen.d1 < pen.d2

\* C16 as stated: after blacklistClient(clientId, d) at time t, every checkLimit(clientId)
\* made before t + d is denied, whatever the client's history and the skip configuration,
\* unless whitelistClient(clientId) was called in between. The history keeps the latest
\* end t + d of the bans set since the last whitelistClient.
C16_DeniedUntilEveryBanEnds ==
    [][\A c \in ClientIds :
          (IsCheckOf(c) /\ c \in DOMAIN bans /\ now < bans[c].longest)
              => ~ret'.allowed]_vars

\* C16 amended: after the latest blacklistClient(clientId, d), at time t, every
\* checkLimit(clientId) made before t + d is denied, whatever the client's history and the
\* skip configuration, unless whitelistClient(clientId) was called in between.
C16_DeniedUntilLatestBanEnds ==
    [][\A c \in ClientIds :
          (IsCheckOf(c) /\ c \in DOMAIN bans /\ now < bans[c].last)
              => ~ret'.allowed /\ ~ret'.counted]_vars

\* a check of a client with no request history was denied under a configuration that skips
\* requests, while its latest ban lasts
C16_Witness ==
    /\ ret.op = "checkLimit" /\ ~ret.allowed
    /\ config.skipSuccessfulRequests
    /\ ret.client \in DOMAIN bans /\ now < bans[ret.client].last
    /\ clients[ret.client].requests = <<>>
    /\ clients[ret.client].warnings = 0

\* C17: whitelistClient(clientId) on a known client clears blocked, blockedUntil, warnings,
\* suspiciousActivity and the request history and leaves totalRequests and every other
\* record as they were; the next counted checkLimit of the client is allowed with
\* remaining = max - 1; on an unknown client it creates no record and changes nothing.
C17_WhitelistClears ==
    [][\A c \in ClientIds :
          /\ (IsWhitelistOf(c) /\ c \in DOMAIN clients) =>
                 /\ DOMAIN clients' = DOMAIN clients
                 /\ ~clients'[c].blocked
                 /\ clients'[c].blockedUntil = Undefined
                 /\ clients'[c].warnings = 0
                 /\ ~clients'[c].suspiciousActivity
                 /\ clients'[c].requests = <<>>
                 /\ clients'[c].totalRequests = clients[c].totalRequests
                 /\ \A o \in DOMAIN clients \ {c} : clients'[o] = clients[o]
          /\ (IsWhitelistOf(c) /\ c \notin DOMAIN clients) =>
                 clients' = clients
          /\ (IsCheckOf(c) /\ cleared[c] /\ ret'.counted) =>
                 ret'.allowed /\ ret'.remaining = config.max - 1]_vars

\* the first counted check after whitelistClient lifted a ban of a client with requests in
\* its window was allowed
C17_Witness ==
    /\ ret.op = "checkLimit" /\ ret.counted /\ ret.allowed
    /\ ret.remaining = config.max - 1
    /\ clients[ret.client].totalRequests > config.max
    /\ Len(clients[ret.client].requests) = 1
    /\ ~cleared[ret.client]
    /\ ticks = 0

---------------------------------------------------------------------------
(* Claims about the SocketRateLimiter *)

\* a step that is a call of checkEventLimit
IsEventCheck == ret'.op = "checkEventLimit" /\ ticks' = ticks
\* a step in which the connection middleware ran
IsMiddleware == ret'.op = "middleware" /\ ticks' = ticks

\* what checkLimit leaves in the limiter it was called on: a record under the client
\* identity, blocked exactly when the call was denied, and every other record as it was
CheckedIn(before, after, clientId, allowed) ==
    /\ DOMAIN after = (DOMAIN before) \cup {clientId}
    /\ after[clientId].blocked = ~allowed
    /\ \A o \in DOMAIN before \ {clientId} : after[o] = before[o]

\* C18: checkEventLimit(socket, event) consults and mutates exactly one limiter: the
\* event's own limiter when one is registered for the event name, otherwise the global
\* limiter; every other limiter, the global one included when the event has its own, is
\* left as it was; on both paths the key is the identity derived from the socket.
C18_OneLimiterPerEventCheck ==
    [][IsEventCheck =>
          /\ \E socket \in Sockets : ret'.client = getClientId(socket)
          /\ DOMAIN eventLimiters' = DOMAIN eventLimiters
          /\ \A e \in DOMAIN eventLimiters :
                 /\ eventLimiters'[e].config = eventLimiters[e].config
                 /\ e /= ret'.event => eventLimiters'[e] = eventLimiters[e]
          /\ IF ret'.event \in DOMAIN eventLimiters
             THEN /\ clients' = clients
                  /\ CheckedIn(eventLimiters[ret'.event].clients,
                               eventLimiters'[ret'.event].clients,
                               ret'.client, ret'.allowed)
             ELSE /\ eventLimiters' = eventLimiters
                  /\ CheckedIn(clients, clients', ret'.client, ret'.allowed)]_vars

\* an event with its own limiter was allowed for a client the global limiter has denied,
\* and the global limiter kept its record
C18_Witness ==
    /\ ret.op = "checkEventLimit" /\ ret.allowed
    /\ ret.event \in DOMAIN eventLimiters
    /\ bans = NoBans
    /\ ret.client \in DOMAIN clients
    /\ clients[ret.client].warnings = 1
    /\ eventLimiters[ret.event].clients[ret.client].warnings = 0
    /\ eventLimiters[ret.event].clients[ret.client].totalRequests = 1

\* C19 as stated: after blacklistSocket(socket, d) at time t, until t + d every
\* checkEventLimit of the client is denied, for an event with its own limiter or without,
\* and the connection middleware rejects the client. The history keeps the latest end
\* t + d of the bans set for the identity.
C19_BannedUntilEveryBanEnds ==
    [][/\ (IsEventCheck /\ ret'.client \in DOMAIN bans
              /\ now < bans[ret'.client].longest) => ~ret'.allowed
       /\ (IsMiddleware /\ ret'.client \in DOMAIN bans
              /\ now < bans[ret'.client].longest) => ret'.rejected]_vars

\* C19 amended: after the latest blacklistSocket(socket, d) for the client's identity, at
\* time t, until t + d every checkEventLimit of the client is denied, for an event with
\* its own limiter or without, and the connection middleware rejects the client.
C19_BannedUntilLatestBanEnds ==
    [][/\ (IsEventCheck /\ ret'.client \in DOMAIN bans
              /\ now < bans[ret'.client].last) => ~ret'.allowed
       /\ (IsMiddleware /\ ret'.client \in DOMAIN bans
              /\ now < bans[ret'.client].last) => ret'.rejected]_vars

\* some time into its ban, a client that never made a request was denied an event that
\* has its own limiter
C19_Witness ==
    /\ ret.op = "checkEventLimit" /\ ~ret.allowed
    /\ ret.event \in DOMAIN eventLimiters
    /\ ticks > 0
    /\ ret.client \in DOMAIN bans /\ now < bans[ret.client].last
    /\ eventLimiters[ret.event].clients[ret.client].totalRequests = 0
    /\ clients[ret.client].totalRequests = 0

---------------------------------------------------------------------------
(* Claims about the load balancer *)

\* C2: whatever the strategy, the node selectServer returns is healthy and
\* has activeConnections < maxConnections at the time it is returned.
C2_SelectedIsHealthyBelowCapacity ==
    (ret.op = "selectServer" /\ ret.server /= Null)
    => /\ Val(ret.server).isHealthy
       /\ Val(ret.server).activeConnections < Val(ret.server).maxConnections

\* C2 witness: the weighted round robin has returned a node while another
\* registered node is healthy and at capacity
C2_Witness ==
    /\ ret.op = "selectServer"
    /\ ret.server /= Null
    /\ strategy.name = "weighted-round-robin"
    /\ \E i \in Positions(nodes) :
           /\ nodes[i].id /= Val(ret.server).id
           /\ nodes[i].isHealthy
           /\ nodes[i].activeConnections >= nodes[i].maxConnections

\* a step that is a call of operation op
IsCall(op) == ret'.op = op /\ ticks' = ticks
\* a step that is a call of operation op(id)
IsCallOn(op, id) == IsCall(op) /\ ret'.id = id

\* C3: selectServer never returns a node for which isCircuitOpen(id) would
\* return true at the time of the call.
C3_SelectedBreakerNotOpen ==
    [][(IsCall("selectServer") /\ ret'.server /= Null)
       => ~isCircuitOpen(circuitBreakers, Val(ret'.server).id, now).value]_vars

\* the sum of the weights of the nodes ns
RECURSIVE TotalWeight(_)
TotalWeight(ns) == IF ns = <<>> THEN 0 ELSE Head(ns).weight + TotalWeight(Tail(ns))

\* how often id occurs in seq
CountOf(id, seq) == Cardinality({i \in 1..Len(seq) : seq[i] = id})

AllSelectable(ns) == \A i \in Positions(ns) : Selectable(ns[i])

\* C11: on a static registry of selectable nodes of total weight W, a new
\* weighted round robin returns each node exactly weight times in every
\* full cycle of W consecutive selectServer calls.
C11_WeightedCycleExact ==
    (strategy.name = "weighted-round-robin" /\ AllSelectable(nodes))
    => LET W == TotalWeight(nodes)
       IN  \A k \in 0..MaxCalls :
               (W > 0 /\ (k + 1) * W <= Len(served))
               => \A i \in Positions(nodes) :
                      CountOf(nodes[i].id, SubSeq(served, k * W + 1, (k + 1) * W))
                          = nodes[i].weight

\* C39: in the weighted round robin every queue entry has 0 <= remainingWeight <= weight
\* of its node after any sequence of selectServer calls, for every configured weight,
\* weight 0 included.
C39_RemainingWeightInRange ==
    strategy.name = "weighted-round-robin"
    => \A k \in 1..Len(strategy.weightedQueue) :
           LET entry == strategy.weightedQueue[k]
           IN  /\ entry.remainingWeight >= 0
               /\ HasId(nodes, entry.id)
                     => entry.remainingWeight <= NodeOf(nodes, entry.id).weight

\* C12: under every strategy selectServer returns a node exactly when some
\* registered node is healthy and below capacity, and null otherwise; the call
\* emits exactly one event: server-selected for the node returned, or
\* no-server-available when it returns null.
C12_NullIffNoneSelectable ==
    [][IsCall("selectServer")
       => /\ (ret'.server = Null) <=> (\A i \in Positions(nodes) : ~Selectable(nodes[i]))
          /\ ret'.server /= Null => Val(ret'.server) \in {nodes[i] : i \in Positions(nodes)}
          /\ emitted' = IF ret'.server = Null
                        THEN <<Event("no-server-available", "")>>
                        ELSE <<Event("server-selected", Val(ret'.server).id)>>]_vars

\* C12 witness: the weighted round robin has returned null with two nodes
\* registered, and only no-server-available was emitted
C12_Witness ==
    /\ ret.op = "selectServer"
    /\ ret.server = Null
    /\ emitted = <<Event("no-server-available", "")>>
    /\ strategy.name = "weighted-round-robin"
    /\ Len(nodes) = 2
    /\ \A i \in Positions(nodes) : ~Selectable(nodes[i])

\* C13: least-connections returns a selectable node whose activeConnections
\* is minimal among the selectable nodes, and of several such nodes the first
\* in registry order.
C13_LeastConnectionsFirstMinimum ==
    (strategy.name = "least-connections" /\ ret.op = "selectServer"
        /\ \E i \in Positions(nodes) : Selectable(nodes[i]))
    => \E i \in Positions(nodes) :
           /\ ret.server = {nodes[i]}
           /\ Selectable(nodes[i])
           /\ \A j \in Positions(nodes) :
                  Selectable(nodes[j])
                  => \/ nodes[i].activeConnections < nodes[j].activeConnections
                     \/ nodes[i].activeConnections = nodes[j].activeConnections /\ i <= j

\* C13 witness: A idle and healthy, B loaded and healthy, C idle and
\* unhealthy: A is returned
C13_Witness ==
    /\ strategy.name = "least-connections"
    /\ ret.op = "selectServer"
    /\ Len(nodes) = 3
    /\ nodes[1].isHealthy /\ nodes[1].activeConnections = 0
    /\ nodes[2].isHealthy /\ nodes[2].activeConnections = 1
    /\ ~nodes[3].isHealthy /\ nodes[3].activeConnections = 0
    /\ ret.server = {nodes[1]}

\* C14: on a static registry with n selectable nodes, the last n
\* selectServer calls of a round robin returned each selectable node once,
\* in registry order (cyclically), from the position the strategy is at now,
\* which is the position it was at before these n calls.
C14_RoundRobinRotation ==
    LET healthyNodes == SelectSeq(nodes, Selectable)
        n == Len(healthyNodes)
        m == Len(served)
    IN  (strategy.name = "round-robin" /\ n >= 1 /\ m >= n)
        => \A k \in 0..(n - 1) :
               served[m - n + 1 + k]
                   = healthyNodes[((strategy.currentIndex + k) % n) + 1].id

\* C14 witness: of A, B, C only A and C are selectable, and three calls have
\* returned C, A, C
C14_Witness ==
    /\ strategy.name = "round-robin"
    /\ Len(nodes) = 3
    /\ Selectable(nodes[1]) /\ ~Selectable(nodes[2]) /\ Selectable(nodes[3])
    /\ served = <<"C", "A", "C">>

\* a step that is a call of operation op(sessionId)
IsCallFor(op, sessionId) == IsCall(op) /\ ret'.session = sessionId

\* C15: getStickyServer(sessionId) returns the mapped node when it is
\* registered, healthy and below capacity and keeps the mapping; otherwise it
\* returns null and the session is unmapped afterwards; an unmapped session
\* stays unmapped, and its getStickyServer returns null, in every step but
\* an assignStickySession of that session.
C15_StickyOnlyWhileSelectable ==
    [][\A sessionId \in SessionIds :
          /\ IsCallFor("getStickyServer", sessionId)
                => IF /\ sessionId \in DOMAIN stickySessionMap
                      /\ HasId(nodes, stickySessionMap[sessionId])
                      /\ Selectable(NodeOf(nodes, stickySessionMap[sessionId]))
                   THEN /\ ret'.server = {NodeOf(nodes, stickySessionMap[sessionId])}
                        /\ stickySessionMap' = stickySessionMap
                   ELSE /\ ret'.server = Null
                        /\ sessionId \notin DOMAIN stickySessionMap'
          /\ (sessionId \notin DOMAIN stickySessionMap
                  /\ ~IsCallFor("assignStickySession", sessionId))
                => sessionId \notin DOMAIN stickySessionMap']_vars

\* C15 witness: getStickyServer has found the mapped node registered but not
\* selectable, deleted the mapping and returned null
C15_Witness ==
    /\ ret.op = "getStickyServer"
    /\ ret.server = Null
    /\ ret.evicted
    /\ ret.session \notin DOMAIN stickySessionMap
    /\ nodes /= <<>>

\* C20: addServer registers the node with isHealthy = false and
\* activeConnections = 0, and while no probe of the registered node has
\* completed with response.ok since, the node stays registered as not
\* healthy and neither selectServer nor getStickyServer returns it.
C20_UnprobedNeverReturned ==
    [][/\ \A id \in NodeIds :
              IsCallOn("addServer", id)
              => /\ HasId(nodes', id)
                 /\ ~NodeOf(nodes', id).isHealthy
                 /\ NodeOf(nodes', id).activeConnections = 0
       /\ \A id \in unprobed' : HasId(nodes', id) /\ ~NodeOf(nodes', id).isHealthy
       /\ (IsCall("selectServer") \/ IsCall("getStickyServer"))
              => \A node \in ret'.server : node.id \notin unprobed]_vars

\* C20 witness: selectServer has returned a node while another node is
\* registered and no probe has found it ok yet
C20_Witness ==
    /\ ret.op = "selectServer"
    /\ ret.server /= Null
    /\ \E id \in unprobed : HasId(nodes, id) /\ id /= Val(ret.server).id

\* C22: in every reachable state every registered node has activeConnections >= 0, after
\* any sequence of addServer, incrementConnection, decrementConnection (more decrements
\* than increments included) and updateServerStats.
C22_ActiveConnectionsNonNegative ==
    \A i \in 1..Len(nodes) : nodes[i].activeConnections >= 0

\* the events of es that have one of the names
Named(es, names) == LET named(e) == e.name \in names IN SelectSeq(es, named)
Transitions(es) == Named(es, {"server-healthy", "server-unhealthy"})
Generics(es) == Named(es, {"health-check-completed", "health-check-failed"})

\* a step in which the probe probes[i] completes
IsCompletionOf(i) ==
    probes' = SubSeq(probes, 1, i - 1) \o SubSeq(probes, i + 1, Len(probes))

\* the node object a probe holds, before the step and after it (none once nothing holds it)
HeldBefore(target) ==
    IF target[1] = "node" THEN NodeOf(nodes, target[2]) ELSE orphans[target]
HeldAfter(target) ==
    IF target[1] = "node" THEN Some(NodeOf(nodes', target[2]))
    ELSE IF target \in DOMAIN orphans' THEN Some(orphans'[target]) ELSE Undefined

\* C24: a health-transition notification ('server-healthy' or 'server-unhealthy') is
\* emitted exactly when a probe completion changes the node's isHealthy, and never when it
\* leaves it as it was; every probe completion also emits exactly one generic notification
\* ('health-check-completed' or 'health-check-failed').
C24_TransitionEventsOnChangeOnly ==
    [][/\ \A i \in 1..Len(probes) :
              IsCompletionOf(i) =>
                  LET was == HeldBefore(probes[i].target).isHealthy
                      after == HeldAfter(probes[i].target)
                  IN  /\ Len(Generics(emitted')) = 1
                      /\ Len(Transitions(emitted')) <= 1
                      /\ \A k \in 1..Len(Transitions(emitted')) :
                             /\ Transitions(emitted')[k].id = probes[i].target[2]
                             /\ Transitions(emitted')[k].name =
                                    (IF was THEN "server-unhealthy" ELSE "server-healthy")
                      /\ after /= Undefined =>
                             /\ (Len(Transitions(emitted')) = 1)
                                    = (Val(after).isHealthy /= was)
       /\ Len(probes') >= Len(probes) =>
              Transitions(emitted') = <<>> /\ Generics(emitted') = <<>>]_vars

\* a probe that threw found a healthy node of the registry: both notifications went out
C24_Witness ==
    /\ emitted = <<Event("server-unhealthy", "A"), Event("health-check-failed", "A")>>
    /\ HasId(nodes, "A") /\ ~NodeOf(nodes, "A").isHealthy
    /\ probes = <<>>

\* a probe of the backend of that id is in flight
InFlight(id) == \E i \in 1..Len(probes) : probes[i].target[2] = id

\* C25: every health probe that is started eventually completes and sets the node's
\* isHealthy, a backend that never answers included: no backend has probes in flight for
\* ever without one of them completing (a completion emits 'health-check-completed' or
\* 'health-check-failed' for the node).
C25_EveryProbeCompletes ==
    \A id \in NodeIds :
        []<>(~InFlight(id) \/ \E k \in 1..Len(Generics(emitted)) :
                                 Generics(emitted)[k].id = id)

\* the state of the limiter and of the balancer
ProgramState ==
    <<config, clients, eventLimiters, nodes, orphans, probes, strategy,
      healthCheckInterval, circuitBreakers, stickySessionMap>>

NodeOperations ==
    {"updateServerStats", "incrementConnection", "decrementConnection", "removeServer",
     "recordFailure", "recordSuccess", "isCircuitOpen"}

\* C23: every operation that references an unregistered client, node or session id
\* (updateServerStats, incrementConnection, decrementConnection, removeServer,
\* getStickyServer, removeStickySession, recordFailure, recordSuccess, isCircuitOpen,
\* whitelistClient, isBlocked, getClientStats) leaves all limiter and balancer state as it
\* was and returns false or nothing.
C23_UnknownIdsAreNoOps ==
    [][/\ \A id \in NodeIds, op \in NodeOperations :
              (IsCallOn(op, id) /\ ~HasId(nodes, id)) =>
                  /\ ProgramState' = ProgramState
                  /\ op \in {"removeServer", "isCircuitOpen"} => ~ret'.value
       /\ \A sessionId \in SessionIds, op \in {"getStickyServer", "removeStickySession"} :
              (IsCallFor(op, sessionId) /\ sessionId \notin DOMAIN stickySessionMap) =>
                  /\ ProgramState' = ProgramState
                  /\ op = "getStickyServer" => ret'.server = Null
       /\ \A c \in ClientIds, op \in {"whitelistClient", "isBlocked", "getClientStats"} :
              (IsCall(op) /\ ret'.client = c /\ c \notin DOMAIN clients) =>
                  /\ ProgramState' = ProgramState
                  /\ op = "isBlocked" => ~ret'.value
                  /\ op = "getClientStats" => ret'.value = Null]_vars

\* the nodes of ns other than the one of that id, in order
Others(ns, id) == LET other(n) == n.id /= id IN SelectSeq(ns, other)

\* C21: removeServer(id) removes only the registry entry: it returns true and deletes the
\* node when id is registered, returns false and changes nothing when id is unknown, and in
\* both cases leaves the circuit-breaker table and the sticky-session map as they were;
\* selectServer and getStickyServer return registered nodes only, and a removed id is
\* registered again by addServer(id) alone.
C21_RemoveServerOnlyRegistry ==
    [][\A id \in NodeIds :
          /\ IsCallOn("removeServer", id) =>
                 /\ circuitBreakers' = circuitBreakers
                 /\ stickySessionMap' = stickySessionMap
                 /\ strategy' = strategy
                 /\ healthCheckInterval' = healthCheckInterval
                 /\ ret'.value = HasId(nodes, id)
                 /\ ~HasId(nodes', id)
                 /\ nodes' = Others(nodes, id)
                 /\ ~HasId(nodes, id) => probes' = probes /\ orphans' = orphans
          /\ (IsCall("selectServer") /\ ret'.server /= Null /\ Val(ret'.server).id = id)
                 => HasId(nodes, id)
          /\ (IsCall("getStickyServer") /\ ret'.server /= Null /\ Val(ret'.server).id = id)
                 => HasId(nodes, id)
          /\ (~HasId(nodes, id) /\ HasId(nodes', id)) => IsCallOn("addServer", id)]_vars

\* a node was removed that was selectable, had a session pinned to it and a breaker with
\* failures, another node staying registered
C21_Witness ==
    /\ ret.op = "removeServer" /\ ret.value
    /\ ~HasId(nodes, ret.id)
    /\ Len(nodes) = 1
    /\ ret.id \in DOMAIN circuitBreakers
    /\ circuitBreakers[ret.id].failures > 0
    /\ \E sessionId \in DOMAIN stickySessionMap : stickySessionMap[sessionId] = ret.id

\* C26: under any interleaving of startHealthChecks and stopHealthChecks at most one
\* health-check timer is set at any time; stopHealthChecks leaves none set, and no tick
\* starts probes from then until startHealthChecks is called again; destroy() leaves the
\* cleanup timer cleared, and no cleanup tick runs from then on.
C26_TimersStopForGood ==
    [][/\ healthTimers' <= 1
       /\ IsCall("stopHealthChecks") => healthTimers' = 0 /\ ~healthCheckInterval'
       /\ IsCall("startHealthChecks") => healthTimers' = 1 /\ healthCheckInterval'
       /\ (healthCheckInterval' /= healthCheckInterval \/ healthTimers' /= healthTimers)
              => IsCall(IF healthCheckInterval' THEN "startHealthChecks"
                        ELSE "stopHealthChecks")
       /\ IsCall("performHealthChecks") => healthCheckInterval /\ healthTimers = 1
       /\ IsCall("destroy") => ~cleanupTimer' /\ clients' = EmptyMap
       /\ ~cleanupTimer => ~cleanupTimer'
       /\ IsCall("cleanup") => cleanupTimer]_vars

\* stopHealthChecks has just cleared the timer that was set, a node being registered and
\* the limiter destroyed
C26_Witness ==
    /\ ret.op = "stopHealthChecks"
    /\ ret.cleared = 1
    /\ healthTimers = 0
    /\ nodes /= <<>>
    /\ ~cleanupTimer

\* C38: when callers call incrementConnection(id) only on a node selectServer has just
\* returned and decrementConnection(id) once per finished unit of work, activeConnections
\* never exceeds maxConnections for any node, however the select and increment steps of
\* different callers interleave.
C38_NeverAboveCapacity ==
    \A i \in Positions(nodes) : nodes[i].activeConnections <= nodes[i].maxConnections

\* C37: when several probes of one node are in flight at once, then once all of them have
\* ended the isHealthy of the node is what the probe started last found: a probe started
\* earlier that ends later never overwrites the newer result.
C37_NewestProbeWins ==
    \A id \in NodeIds :
        (/\ HasId(nodes, id)
         /\ ~HeldByProbe(probes, OnNode(id))
         /\ newest[id] /= Undefined)
        => NodeOf(nodes, id).isHealthy = Val(newest[id])

---------------------------------------------------------------------------
(* Claims about the circuit breaker *)

\* C35: in every reachable state of the breaker table an open breaker has failures >= 5,
\* and a closed or half-open breaker has failures < 5.
C35_StateAgreesWithFailures ==
    \A id \in DOMAIN circuitBreakers :
        LET breaker == circuitBreakers[id]
        IN  /\ breaker.state = "open" => breaker.failures >= FailureThreshold
            /\ breaker.state \in {"closed", "half-open"}
                  => breaker.failures < FailureThreshold

\* one breaker is open with a failure recorded after it opened, another is half-open
\* with failures recorded since
C35_Witness ==
    \E a, b \in DOMAIN circuitBreakers :
        /\ circuitBreakers[a].state = "open"
        /\ circuitBreakers[a].failures > FailureThreshold
        /\ circuitBreakers[b].state = "half-open"
        /\ circuitBreakers[b].failures > 0

\* the 'circuit-breaker-opened' notifications for id among the events es
OpenedFor(es, id) ==
    LET forId(e) == e.id = id IN SelectSeq(Named(es, {"circuit-breaker-opened"}), forId)
\* whether the breaker of id is open in the table cb
OpenIn(cb, id) == id \in DOMAIN cb /\ cb[id].state = "open"

\* C36: 'circuit-breaker-opened' is emitted exactly once each time a breaker enters the
\* open state, from closed or half-open; recordFailure on a breaker that is open already
\* emits no further 'opened' notification.
C36_OpenedOncePerOpening ==
    [][\A id \in NodeIds :
          IsCallOn("recordFailure", id) =>
              Len(OpenedFor(emitted', id)) =
                  IF ~OpenIn(circuitBreakers, id) /\ OpenIn(circuitBreakers', id)
                  THEN 1 ELSE 0]_vars

\* C7: counting recordFailure calls from a breaker that is absent or closed
\* with 0 failures, the breaker is closed after each of the first four and
\* open after the fifth; recordSuccess on a closed breaker changes nothing.
C7_OpensOnFifthFailure ==
    [][\A id \in NodeIds :
          /\ IsCallOn("recordFailure", id)
                => /\ streak'[id] \in 1..4
                        => /\ circuitBreakers'[id].state = "closed"
                           /\ circuitBreakers'[id].failures = streak'[id]
                   /\ streak'[id] = 5 => circuitBreakers'[id].state = "open"
          /\ (/\ IsCallOn("recordSuccess", id)
              /\ id \in DOMAIN circuitBreakers
              /\ circuitBreakers[id].state = "closed")
                => circuitBreakers' = circuitBreakers]_vars

\* C7 witness: the fifth recordFailure in a row has just opened the breaker
C7_Witness ==
    /\ ret.op = "recordFailure"
    /\ streak[ret.id] = 5
    /\ circuitBreakers[ret.id].state = "open"
    /\ circuitBreakers[ret.id].failures = 5

\* C8 as stated: isCircuitOpen on an open breaker at least 60000 ms after the
\* last failure moves it to half-open with 0 failures and returns false; an
\* earlier call returns true and leaves the table as it is.
C8_HalfOpenAtSixtySeconds ==
    [][\A id \in NodeIds :
          (/\ IsCallOn("isCircuitOpen", id)
           /\ id \in DOMAIN circuitBreakers
           /\ circuitBreakers[id].state = "open")
          => IF now - circuitBreakers[id].lastFailureTime >= 60000
             THEN /\ circuitBreakers'[id].state = "half-open"
                  /\ circuitBreakers'[id].failures = 0
                  /\ ret'.value = FALSE
             ELSE /\ ret'.value = TRUE
                  /\ circuitBreakers' = circuitBreakers]_vars

\* C8 amended: isCircuitOpen on an open breaker more than 60000 ms after the
\* last failure moves it to half-open with 0 failures and returns false; a
\* call at 60000 ms or earlier returns true and leaves the table as it is.
C8_HalfOpenAfterSixtySeconds ==
    [][\A id \in NodeIds :
          (/\ IsCallOn("isCircuitOpen", id)
           /\ id \in DOMAIN circuitBreakers
           /\ circuitBreakers[id].state = "open")
          => IF now - circuitBreakers[id].lastFailureTime > 60000
             THEN /\ circuitBreakers'[id].state = "half-open"
                  /\ circuitBreakers'[id].failures = 0
                  /\ ret'.value = FALSE
             ELSE /\ ret'.value = TRUE
                  /\ circuitBreakers' = circuitBreakers]_vars

\* C8 witness: isCircuitOpen has returned false 60001 ms after the fifth
\* failure and the breaker is half-open with 0 failures
C8_Witness ==
    /\ ret.op = "isCircuitOpen"
    /\ ret.value = FALSE
    /\ ret.id \in DOMAIN circuitBreakers
    /\ circuitBreakers[ret.id].state = "half-open"
    /\ circuitBreakers[ret.id].failures = 0
    /\ now - circuitBreakers[ret.id].lastFailureTime = 60001

\* C9: recordSuccess on a half-open breaker closes it, sets failures to 0 and
\* emits one circuit-breaker-closed; on a closed or open breaker or an
\* unknown node it changes nothing and emits nothing.
C9_SuccessClosesOnlyHalfOpen ==
    [][\A id \in NodeIds :
          IsCallOn("recordSuccess", id)
          => IF id \in DOMAIN circuitBreakers /\ circuitBreakers[id].state = "half-open"
             THEN /\ circuitBreakers'[id].state = "closed"
                  /\ circuitBreakers'[id].failures = 0
                  /\ emitted' = <<Event("circuit-breaker-closed", id)>>
             ELSE /\ circuitBreakers' = circuitBreakers
                  /\ emitted' = <<>>]_vars

\* C9 witness: recordSuccess has just closed a breaker
C9_Witness ==
    /\ ret.op = "recordSuccess"
    /\ emitted = <<Event("circuit-breaker-closed", ret.id)>>
    /\ circuitBreakers[ret.id].state = "closed"
    /\ circuitBreakers[ret.id].failures = 0

\* C10: a recordFailure on a half-open breaker leaves it open.
C10_HalfOpenFailureReopens ==
    [][\A id \in NodeIds :
          (/\ IsCallOn("recordFailure", id)
           /\ id \in DOMAIN circuitBreakers
           /\ circuitBreakers[id].state = "half-open")
          => circuitBreakers'[id].state = "open"]_vars

====
